---- MODULE Spec2Model ----
(***************************************************************************)
(* terabyebye: date-boundary search over a POP3 mailbox addressed by       *)
(* shifting 1-based positions, the batch delete engine and the backup      *)
(* pipeline of src/yahoo/terabyebye.py (and the cutoff-only variant        *)
(* src/pop3_cleanup_fast.py, which is the same engine with start = 1).     *)
(***************************************************************************)
EXTENDS Integers, Sequences, FiniteSets, TLC

\* ---------------------------------------------------------------- bounds
\* mailbox sizes and date values explored by the boundary search
SearchMaxN == 6
SearchMaxDate == 2
\* mailbox sizes explored by the two engines under an unreliable transport
MaxN == 3
\* mailbox sizes and date values explored by main()
MainMaxN == 5
MaxDate == 5
\* numbers of message ids handed to the Gmail backup
GmailMaxN == 5
\* length of a year in date units: date d lies in year d \div YearLen
YearLen == 2
\* value at which the model stops counting consecutive_failures in the
\* backup loop, which the code lets grow without limit on repeated STAT
\* failures
MaxCF == 5
\* cap on the archive length up to which the transport still fails a commit
MaxEntries == 2

\* ------------------------------------------------------ program constants
MAX_FAILURES == 5
DEFAULT_BATCH_SIZE == 50
BACKUP_BATCH_SIZE == 50
CONN_WAIT_BASE == 30
CONN_WAIT_CAP == 120
COMMIT_WAIT_BASE == 60
COMMIT_WAIT_CAP == 300
MAX_MARK_ERRORS == 10
\* Gmail backup: default BATCH_SIZE and max_failures
GMAIL_BATCH_SIZE == 100
GMAIL_MAX_FAILURES == 5

\* Python's None (an unparseable Date, an unset local, an absent config key)
None == -1

VARIABLES
    \* the mail store and the open session
    dates,          \* dates[m]: Date of message m (None when unparseable)
    mailbox,        \* the messages in the store, by position
    marks,          \* positions marked for deletion in the open session
    archive,        \* the entries written to the ZIP bundles, in order
    \* binary_search_date
    target_date, find_first_gte, left, right, mid, result, spc,
    \* history: the neighbours whose date the current iteration asked for
    probed,
    \* main / get_deletion_range
    config, range,
    \* delete_messages_robust and backup_emails_to_zip (locals of one call)
    pc, messages_to_delete, start_position, batch_size,
    consecutive_failures, initial_count, num_messages, batch_count,
    i, marked_count, errors_this_batch, wait_time, total_deleted,
    \* backup_emails_to_zip only
    delete_after, backed_up, deleted, remaining, batch_emails, batch_msg_nums,
    \* Gmail API backup_emails_to_zip only
    message_ids, batch_start, batch_msg_ids,
    \* history: what the committed and the failed batches were, and the kind
    \* of the last failure of the current streak of consecutive failures
    committed, failed_batch, last_failure,
    \* history: the sessions the batch loop opened and has not yet quit
    open_sessions

storeVars == <<dates, mailbox, marks, archive>>
searchVars == <<target_date, find_first_gte, left, right, mid, result, spc,
                probed>>
mainVars == <<config, range>>
engineVars == <<pc, messages_to_delete, start_position, batch_size,
                consecutive_failures, initial_count, num_messages, batch_count,
                i, marked_count, errors_this_batch, wait_time, total_deleted>>
backupVars == <<delete_after, backed_up, deleted, remaining, batch_emails,
                batch_msg_nums>>
gmailVars == <<message_ids, batch_start, batch_msg_ids>>
histVars == <<committed, failed_batch, last_failure, open_sessions>>
vars == <<storeVars, searchVars, mainVars, engineVars, backupVars, gmailVars,
          histVars>>

\* ------------------------------------------------------------- helpers
Min(a, b) == IF a <= b THEN a ELSE b

Range(s) == {s[k] : k \in 1..Len(s)}

\* all sequences over S of length lo..hi
SeqsOf(S, lo, hi) == UNION {[1..n -> S] : n \in lo..hi}

\* the view a session has of the store: the Date at each position
Pop == [p \in 1..Len(mailbox) |-> dates[mailbox[p]]]

\* every position has a parseable Date, non-decreasing in position
SortedParseable(pop) ==
    /\ \A p \in 1..Len(pop) : pop[p] # None
    /\ \A p \in 1..Len(pop), q \in 1..Len(pop) : p <= q => pop[p] <= pop[q]

\* ------------------------------------------------- get_message_date
\* The Date of the message at position msg_num, None when the header is
\* missing, unparseable or the TOP command fails.
get_message_date(pop, msg_num) == pop[msg_num]

\* ------------------------------------------------- binary_search_date
\* the neighbours tried below the midpoint first
OffsetsBelowFirst == <<-1, 1, -2, 2, -5, 5>>

Offsets == <<1, -1, 2, -2, 5, -5>>

\* the neighbour probe: the first offset, in order, whose position is inside
\* 1..num_messages and has a date; 0 when there is none
RECURSIVE ProbeFrom(_, _, _, _)
ProbeFrom(pop, num, m, k) ==
    IF k > Len(Offsets) THEN 0
    ELSE LET test_msg == m + Offsets[k] IN
         IF /\ 1 <= test_msg
            /\ test_msg <= num
            /\ get_message_date(pop, test_msg) # None
         THEN test_msg
         ELSE ProbeFrom(pop, num, m, k + 1)

\* the neighbour loop asking for every offset position, inside the mailbox
\* or not
RECURSIVE ProbesUnguarded(_, _, _, _)
ProbesUnguarded(pop, num, m, k) ==
    IF k > Len(Offsets) THEN <<>>
    ELSE LET test_msg == m + Offsets[k] IN
         IF 1 <= test_msg /\ test_msg <= num
         THEN IF get_message_date(pop, test_msg) # None
              THEN <<test_msg>>
              ELSE <<test_msg>> \o ProbesUnguarded(pop, num, m, k + 1)
         ELSE <<test_msg>> \o ProbesUnguarded(pop, num, m, k + 1)

\* the positions the neighbour loop asks the date of, in the order it asks:
\* it skips the positions outside 1..num_messages and stops at the first date
RECURSIVE Probes(_, _, _, _)
Probes(pop, num, m, k) ==
    IF k > Len(Offsets) THEN <<>>
    ELSE LET test_msg == m + Offsets[k] IN
         IF 1 <= test_msg /\ test_msg <= num
         THEN IF get_message_date(pop, test_msg) # None
              THEN <<test_msg>>
              ELSE <<test_msg>> \o Probes(pop, num, m, k + 1)
         ELSE Probes(pop, num, m, k + 1)

\* the comparison at the end of one loop iteration, off by one: > for >=
CompareStrict(s, m, msg_date, target, gte) ==
    IF gte
    THEN IF msg_date > target
         THEN [left |-> s.left, right |-> m - 1, result |-> m]
         ELSE [left |-> m + 1, right |-> s.right, result |-> s.result]
    ELSE IF msg_date < target
         THEN [left |-> m + 1, right |-> s.right, result |-> m]
         ELSE [left |-> s.left, right |-> m - 1, result |-> s.result]

\* the comparison with the LastLt test taken as <= for <
CompareLastLtInclusive(s, m, msg_date, target, gte) ==
    IF gte
    THEN IF msg_date >= target
         THEN [left |-> s.left, right |-> m - 1, result |-> m]
         ELSE [left |-> m + 1, right |-> s.right, result |-> s.result]
    ELSE IF msg_date <= target
         THEN [left |-> m + 1, right |-> s.right, result |-> m]
         ELSE [left |-> s.left, right |-> m - 1, result |-> s.result]

\* the comparison at the end of one loop iteration (msg_date is a date here)
Compare(s, m, msg_date, target, gte) ==
    IF gte
    THEN IF msg_date >= target
         THEN [left |-> s.left, right |-> m - 1, result |-> m]
         ELSE [left |-> m + 1, right |-> s.right, result |-> s.result]
    ELSE IF msg_date < target
         THEN [left |-> m + 1, right |-> s.right, result |-> m]
         ELSE [left |-> s.left, right |-> m - 1, result |-> s.result]

\* one iteration of the while loop on the window s = [left, right, result]
SearchStep(pop, num, target, gte, s) ==
    LET m == (s.left + s.right) \div 2
        msg_date == get_message_date(pop, m)
    IN  IF msg_date # None
        THEN Compare(s, m, msg_date, target, gte)
        ELSE LET found == ProbeFrom(pop, num, m, 1) IN
             IF found = 0
             THEN [left |-> m + 10, right |-> s.right, result |-> s.result]
             ELSE Compare(s, found, get_message_date(pop, found), target, gte)

\* the locals before the loop, result starting at the nearest position
\* inside the mailbox instead of the sentinel
SearchStartNoSentinel(num, gte) ==
    [left |-> 1, right |-> num, result |-> IF gte THEN num ELSE 1]

\* the locals before the loop: result starts as the sentinel of the mode
SearchStart(num, gte) ==
    [left |-> 1, right |-> num, result |-> IF gte THEN num + 1 ELSE 0]

RECURSIVE SearchLoop(_, _, _, _, _)
SearchLoop(pop, num, target, gte, s) ==
    IF s.left <= s.right
    THEN SearchLoop(pop, num, target, gte, SearchStep(pop, num, target, gte, s))
    ELSE s.result

\* the whole function, for callers; it is applied to mailboxes on which the
\* loop ends (get_deletion_range below is explored on parseable mailboxes)
binary_search_date(pop, num, target, gte) ==
    SearchLoop(pop, num, target, gte, SearchStart(num, gte))

\* binary_search_cutoff of pop3_cleanup_fast.py is the FirstGte search
binary_search_cutoff(pop, num, cutoff_date) ==
    binary_search_date(pop, num, cutoff_date, TRUE)

\* ------------------------------------------------- parse_delete_years
Year(d) == d \div YearLen

\* DELETE_YEARS "Y1-Y2" as <<Y1, Y2>>: the first instant of Y1 and the first
\* instant of the year after Y2
parse_delete_years(delete_years) ==
    [start_year |-> delete_years[1],
     end_year |-> delete_years[2],
     start_date |-> delete_years[1] * YearLen,
     end_date |-> (delete_years[2] + 1) * YearLen]

\* ------------------------------------------------- get_deletion_range
NoRange == [start_pos |-> None, end_pos |-> None, count |-> None]
EmptyRange == [start_pos |-> None, end_pos |-> None, count |-> 0]

\* the end of the year range taken one position too far: end_pos is the
\* first message after end_year instead of the last message of end_year
YearRangeEndOffByOne(pop, num, yrs, oldest_date, newest_date) ==
    LET start_pos == IF oldest_date # None /\ yrs.start_year <= Year(oldest_date)
                     THEN 1
                     ELSE binary_search_date(pop, num, yrs.start_date, TRUE)
        end_pos == IF newest_date # None /\ yrs.end_year >= Year(newest_date)
                   THEN num
                   ELSE binary_search_date(pop, num, yrs.end_date, TRUE)
    IN  IF start_pos > end_pos \/ start_pos > num
        THEN EmptyRange
        ELSE [start_pos |-> start_pos, end_pos |-> end_pos,
              count |-> end_pos - start_pos + 1]

\* year range mode
YearRange(pop, num, yrs, oldest_date, newest_date) ==
    LET start_pos == IF oldest_date # None /\ yrs.start_year <= Year(oldest_date)
                     THEN 1
                     ELSE binary_search_date(pop, num, yrs.start_date, TRUE)
        end_pos == IF newest_date # None /\ yrs.end_year >= Year(newest_date)
                   THEN num
                   ELSE binary_search_date(pop, num, yrs.end_date, TRUE) - 1
    IN  IF start_pos > end_pos \/ start_pos > num
        THEN EmptyRange
        ELSE [start_pos |-> start_pos, end_pos |-> end_pos,
              count |-> end_pos - start_pos + 1]

\* cutoff mode with the boundary message itself put into the range
CutoffRangeInclusive(pop, num, cutoff_date, oldest_date, newest_date) ==
    IF oldest_date # None /\ cutoff_date <= oldest_date
    THEN EmptyRange
    ELSE IF newest_date # None /\ cutoff_date > newest_date
    THEN [start_pos |-> 1, end_pos |-> num, count |-> num]
    ELSE LET cutoff_msg == binary_search_date(pop, num, cutoff_date, TRUE) IN
         IF cutoff_msg <= 1
         THEN EmptyRange
         ELSE [start_pos |-> 1, end_pos |-> Min(cutoff_msg, num),
               count |-> Min(cutoff_msg, num)]

\* cutoff mode taking the delete-everything shortcut also when the cutoff is
\* the date of the newest message
CutoffRangeEagerShortcut(pop, num, cutoff_date, oldest_date, newest_date) ==
    IF oldest_date # None /\ cutoff_date <= oldest_date
    THEN EmptyRange
    ELSE IF newest_date # None /\ cutoff_date >= newest_date
    THEN [start_pos |-> 1, end_pos |-> num, count |-> num]
    ELSE LET cutoff_msg == binary_search_date(pop, num, cutoff_date, TRUE) IN
         IF cutoff_msg <= 1
         THEN EmptyRange
         ELSE [start_pos |-> 1, end_pos |-> cutoff_msg - 1,
               count |-> cutoff_msg - 1]

\* cutoff date mode; cutoff_date is CUTOFF_DATE, or now - 365 * YEARS_OLD days
CutoffRange(pop, num, cutoff_date, oldest_date, newest_date) ==
    IF oldest_date # None /\ cutoff_date <= oldest_date
    THEN EmptyRange
    ELSE IF newest_date # None /\ cutoff_date > newest_date
    THEN [start_pos |-> 1, end_pos |-> num, count |-> num]
    ELSE LET cutoff_msg == binary_search_date(pop, num, cutoff_date, TRUE) IN
         IF cutoff_msg <= 1
         THEN EmptyRange
         ELSE [start_pos |-> 1, end_pos |-> cutoff_msg - 1,
               count |-> cutoff_msg - 1]

get_deletion_range(pop, num, cfg, oldest_date, newest_date) ==
    IF cfg.DELETE_YEARS # <<>>
    THEN YearRange(pop, num, parse_delete_years(cfg.DELETE_YEARS),
                   oldest_date, newest_date)
    ELSE CutoffRange(pop, num, cfg.CUTOFF_DATE, oldest_date, newest_date)

\* ------------------------------------------------------ idle components
SearchIdle ==
    /\ target_date = 0 /\ find_first_gte = TRUE
    /\ left = 0 /\ right = 0 /\ mid = 0 /\ result = 0 /\ spc = "idle"
    /\ probed = <<>>

MainIdle ==
    /\ config = [DELETE_YEARS |-> <<>>, CUTOFF_DATE |-> None,
                 BATCH_SIZE |-> DEFAULT_BATCH_SIZE]
    /\ range = NoRange

EngineLocalsInit ==
    /\ consecutive_failures = 0
    /\ initial_count = None
    /\ num_messages = None
    /\ batch_count = 0 /\ i = 0 /\ marked_count = 0 /\ errors_this_batch = 0
    /\ wait_time = 0 /\ total_deleted = None
    /\ backed_up = 0 /\ deleted = 0 /\ remaining = 0
    /\ batch_emails = <<>> /\ batch_msg_nums = <<>>
    /\ committed = 0 /\ failed_batch = <<>> /\ last_failure = "none"
    /\ open_sessions = 0

\* no Gmail backup is running
GmailIdle == message_ids = <<>> /\ batch_start = 0 /\ batch_msg_ids = <<>>

EngineIdle ==
    /\ pc = "idle" /\ messages_to_delete = 0 /\ start_position = 1
    /\ batch_size = 0 /\ delete_after = FALSE
    /\ EngineLocalsInit

\* ------------------------------------------- the boundary search, stepwise
InitSearch ==
    /\ dates \in SeqsOf((0..SearchMaxDate) \cup {None}, 1, SearchMaxN)
    /\ mailbox = [p \in 1..Len(dates) |-> p]
    /\ marks = {} /\ archive = <<>>
    /\ target_date \in 0..(SearchMaxDate + 1)
    /\ find_first_gte \in BOOLEAN
    /\ LET s == SearchStart(Len(dates), find_first_gte)
       IN  left = s.left /\ right = s.right /\ result = s.result
    /\ mid = 0 /\ probed = <<>>
    /\ spc = "loop"
    /\ MainIdle /\ EngineIdle /\ GmailIdle

\* the first half of an iteration of `while left <= right`: the midpoint,
\* replaced by the first neighbour that has a date when it has none; with no
\* such neighbour the window skips ahead and the iteration ends
SearchProbe ==
    /\ spc = "loop"
    /\ left <= right
    /\ LET m == (left + right) \div 2
           found == IF get_message_date(Pop, m) # None THEN m
                    ELSE ProbeFrom(Pop, Len(mailbox), m, 1)
       IN  /\ IF found = 0
              THEN mid' = m /\ left' = m + 10 /\ spc' = "loop"
              ELSE mid' = found /\ left' = left /\ spc' = "compare"
           /\ probed' = IF get_message_date(Pop, m) # None THEN <<>>
                        ELSE Probes(Pop, Len(mailbox), m, 1)
    /\ UNCHANGED <<storeVars, target_date, find_first_gte, right, result,
                   mainVars, gmailVars, engineVars, backupVars, histVars>>

\* the second half: the date at mid is compared with the target and the
\* window moves to one side of mid
SearchCompare ==
    /\ spc = "compare"
    /\ LET s == Compare([left |-> left, right |-> right, result |-> result],
                        mid, get_message_date(Pop, mid), target_date,
                        find_first_gte)
       IN  /\ left' = s.left
           /\ right' = s.right
           /\ result' = s.result
    /\ spc' = "loop"
    /\ UNCHANGED <<storeVars, target_date, find_first_gte, mid, probed, mainVars,
                   gmailVars, engineVars, backupVars, histVars>>

\* the loop exit and `return result`
SearchReturn ==
    /\ spc = "loop"
    /\ left > right
    /\ spc' = "done"
    /\ UNCHANGED <<storeVars, target_date, find_first_gte, left, right, mid,
                   probed, result, mainVars, gmailVars, engineVars, backupVars,
                   histVars>>

NextSearch == SearchProbe \/ SearchCompare \/ SearchReturn

SpecSearch == InitSearch /\ [][NextSearch]_vars

\* the search as the interpreter runs it: a loop iteration that can be taken
\* is eventually taken
FairSearch == SpecSearch /\ WF_vars(NextSearch)

\* ---------------------------------------------------------------- store
\* the store after a successful commit: the marked positions are removed and
\* the later messages shift down
Expunge(box, marked) ==
    LET gone == {box[p] : p \in marked \cap (1..Len(box))}
    IN  SelectSeq(box, LAMBDA m : m \notin gone)

\* falsy values of `x if initial_count else 0`: None and 0
Truthy(x) == x # None /\ x # 0

\* the messages removed from the store so far (message m started at position m)
Removed == (1..Len(dates)) \ Range(mailbox)

\* ---------------------------------------------------- main: resolve range
\* batch_size = min(config.get("BATCH_SIZE", 50), 50)
CappedBatchSize(cfg) == Min(cfg.BATCH_SIZE, DEFAULT_BATCH_SIZE)

\* main() up to the call of delete_messages_robust: one session resolves the
\* range; the optional oldest/newest dates are passed (known) or left out
Resolve ==
    /\ pc = "main"
    /\ \E known \in BOOLEAN :
         LET num == Len(mailbox)
             first_date == IF known THEN get_message_date(Pop, 1) ELSE None
             last_date == IF known THEN get_message_date(Pop, num) ELSE None
             r == get_deletion_range(Pop, num, config, first_date, last_date)
         IN  /\ range' = r
             /\ IF r.count = 0
                THEN /\ pc' = "exit"
                     /\ UNCHANGED <<messages_to_delete, start_position, batch_size>>
                ELSE /\ pc' = "connect"
                     /\ messages_to_delete' = r.count
                     /\ start_position' = r.start_pos
                     /\ batch_size' = CappedBatchSize(config)
    /\ UNCHANGED <<storeVars, searchVars, gmailVars, config, consecutive_failures,
                   initial_count, num_messages, batch_count, i, marked_count,
                   errors_this_batch, wait_time, total_deleted, backupVars,
                   histVars>>

\* ------------------------------------------------ delete_messages_robust
\* connect_pop3 returns a session
OpenSession == open_sessions' = open_sessions + 1

\* pop.quit() is called on the session, whether it succeeds or raises
QuitSession == open_sessions' = open_sessions - 1

\* the batch size without the remaining-target term
BatchCountNoTarget(size, rem, available) == Min(size, available)

\* batch_count = min(batch_size, remaining, num_messages - current_start + 1)
BatchCount(size, rem, available) == Min(size, Min(rem, available))

\* the failure branch with the wait wrapped at the cap instead of clamped
FailureBranchWrap(base, cap) ==
    /\ consecutive_failures' = consecutive_failures + 1
    /\ IF consecutive_failures + 1 >= MAX_FAILURES
       THEN /\ pc' = "final"
            /\ UNCHANGED wait_time
       ELSE /\ wait_time' = (base * (consecutive_failures + 1)) % cap
            /\ pc' = "connect"

\* the failure branch stopping only when the count exceeds the ceiling
FailureBranchExceeds(base, cap) ==
    /\ consecutive_failures' = consecutive_failures + 1
    /\ IF consecutive_failures + 1 > MAX_FAILURES
       THEN /\ pc' = "final"
            /\ UNCHANGED wait_time
       ELSE /\ wait_time' = Min(base * (consecutive_failures + 1), cap)
            /\ pc' = "connect"

\* the failure branch computing the wait from the count before the increment
FailureBranchStaleCount(base, cap) ==
    /\ consecutive_failures' = consecutive_failures + 1
    /\ IF consecutive_failures + 1 >= MAX_FAILURES
       THEN /\ pc' = "final"
            /\ UNCHANGED wait_time
       ELSE /\ wait_time' = Min(base * consecutive_failures, cap)
            /\ pc' = "connect"

\* what every failure branch of the batch loop does: count the failure, stop
\* at the ceiling, otherwise wait min(base * consecutive_failures, cap)
FailureBranch(base, cap) ==
    /\ consecutive_failures' = consecutive_failures + 1
    /\ IF consecutive_failures + 1 >= MAX_FAILURES
       THEN /\ pc' = "final"
            /\ UNCHANGED wait_time
       ELSE /\ wait_time' = Min(base * (consecutive_failures + 1), cap)
            /\ pc' = "connect"

\* a successful connection clearing the failure count
ConnectOkResets ==
    /\ pc = "connect"
    /\ pc' = "stat"
    /\ marks' = {}
    /\ consecutive_failures' = 0
    /\ UNCHANGED <<dates, mailbox, archive, searchVars, mainVars, gmailVars,
                   messages_to_delete, start_position, batch_size,
                   initial_count, num_messages,
                   batch_count, i, marked_count, errors_this_batch, wait_time,
                   total_deleted, backupVars, committed, failed_batch,
                   last_failure>>
    /\ OpenSession

\* connect_pop3 succeeds: a fresh session with no marks
ConnectOk ==
    /\ pc = "connect"
    /\ pc' = "stat"
    /\ marks' = {}
    /\ UNCHANGED <<dates, mailbox, archive, searchVars, mainVars, gmailVars,
                   messages_to_delete, start_position, batch_size,
                   consecutive_failures, initial_count, num_messages,
                   batch_count, i, marked_count, errors_this_batch, wait_time,
                   total_deleted, backupVars, committed, failed_batch,
                   last_failure>>
    /\ OpenSession

\* connect_pop3 raises
ConnectFail ==
    /\ pc = "connect"
    /\ \E kind \in {"connection", "auth"} : last_failure' = kind
    /\ FailureBranch(CONN_WAIT_BASE, CONN_WAIT_CAP)
    /\ UNCHANGED <<storeVars, searchVars, mainVars, gmailVars, messages_to_delete,
                   start_position, batch_size, initial_count, num_messages,
                   batch_count, i, marked_count, errors_this_batch,
                   total_deleted, backupVars, committed, failed_batch>>
    /\ UNCHANGED open_sessions

\* the shrinkage computed with its operands exchanged
ActualDeletedReversed(init, num) == num - init

\* actual_deleted = initial_count - num_messages
ActualDeleted(init, num) == init - num

\* the STAT step taking the count for initial_count every time
StatOkReassigns ==
    /\ pc = "stat"
    /\ LET num == Len(mailbox)
           init == num
           actual_deleted == ActualDeleted(init, num)
           current_start == start_position
           rem == messages_to_delete - actual_deleted
           count == BatchCount(batch_size, rem, num - current_start + 1)
       IN  /\ num_messages' = num
           /\ initial_count' = init
           /\ IF \/ num = 0
                 \/ actual_deleted >= messages_to_delete
                 \/ current_start > num
                 \/ count <= 0
              THEN /\ pc' = "quit"
                   /\ UNCHANGED <<batch_count, i, marked_count, errors_this_batch>>
              ELSE /\ pc' = "mark"
                   /\ batch_count' = count
                   /\ i' = current_start
                   /\ marked_count' = 0
                   /\ errors_this_batch' = 0
    /\ UNCHANGED <<storeVars, searchVars, mainVars, gmailVars, messages_to_delete,
                   start_position, batch_size, consecutive_failures, wait_time,
                   total_deleted, backupVars, histVars>>

\* pop.stat() succeeds: observe the count, decide DONE or the next batch
StatOk ==
    /\ pc = "stat"
    /\ LET num == Len(mailbox)
           init == IF initial_count = None THEN num ELSE initial_count
           actual_deleted == ActualDeleted(init, num)
           current_start == start_position
           rem == messages_to_delete - actual_deleted
           count == BatchCount(batch_size, rem, num - current_start + 1)
       IN  /\ num_messages' = num
           /\ initial_count' = init
           /\ IF \/ num = 0
                 \/ actual_deleted >= messages_to_delete
                 \/ current_start > num
                 \/ count <= 0
              THEN /\ pc' = "quit"
                   /\ UNCHANGED <<batch_count, i, marked_count, errors_this_batch>>
              ELSE /\ pc' = "mark"
                   /\ batch_count' = count
                   /\ i' = current_start
                   /\ marked_count' = 0
                   /\ errors_this_batch' = 0
    /\ UNCHANGED <<storeVars, searchVars, mainVars, gmailVars, messages_to_delete,
                   start_position, batch_size, consecutive_failures, wait_time,
                   total_deleted, backupVars, histVars>>

\* pop.stat() raises and the loop goes on without quitting the session
StatFailNoQuit ==
    /\ pc = "stat"
    /\ last_failure' = "stat"
    /\ FailureBranch(CONN_WAIT_BASE, CONN_WAIT_CAP)
    /\ UNCHANGED <<storeVars, searchVars, mainVars, gmailVars, messages_to_delete,
                   start_position, batch_size, initial_count, num_messages,
                   batch_count, i, marked_count, errors_this_batch,
                   total_deleted, backupVars, committed, failed_batch,
                   open_sessions>>

\* pop.stat() raises: the session is dropped (quit inside try/except)
StatFail ==
    /\ pc = "stat"
    /\ last_failure' = "stat"
    /\ FailureBranch(CONN_WAIT_BASE, CONN_WAIT_CAP)
    /\ UNCHANGED <<storeVars, searchVars, mainVars, gmailVars, messages_to_delete,
                   start_position, batch_size, initial_count, num_messages,
                   batch_count, i, marked_count, errors_this_batch,
                   total_deleted, backupVars, committed, failed_batch>>
    /\ QuitSession

\* the unguarded pop.quit() before `break` succeeds (nothing is marked)
QuitOk ==
    /\ pc = "quit"
    /\ pc' = "final"
    /\ UNCHANGED <<storeVars, searchVars, mainVars, gmailVars, messages_to_delete,
                   start_position, batch_size, consecutive_failures,
                   initial_count, num_messages, batch_count, i, marked_count,
                   errors_this_batch, wait_time, total_deleted, backupVars,
                   committed, failed_batch,
                   last_failure>>
    /\ QuitSession

\* the unguarded pop.quit() raises: the exception leaves the function
QuitRaise ==
    /\ pc = "quit"
    /\ pc' = "raised"
    /\ UNCHANGED <<storeVars, searchVars, mainVars, gmailVars, messages_to_delete,
                   start_position, batch_size, consecutive_failures,
                   initial_count, num_messages, batch_count, i, marked_count,
                   errors_this_batch, wait_time, total_deleted, backupVars,
                   committed, failed_batch,
                   last_failure>>
    /\ QuitSession

\* the mark loop running one position past the batch
AfterMarkOneMore(next) ==
    /\ i' = next
    /\ pc' = IF next > start_position + batch_count THEN "commit" ELSE "mark"

\* where the mark loop goes after position i: the next position, or the commit
AfterMark(next) ==
    /\ i' = next
    /\ pc' = IF next >= start_position + batch_count THEN "commit" ELSE "mark"

\* pop.dele(i) raises and is counted as marked all the same
MarkFailCounted ==
    /\ pc = "mark"
    /\ errors_this_batch' = errors_this_batch + 1
    /\ marked_count' = marked_count + 1
    /\ IF errors_this_batch + 1 > MAX_MARK_ERRORS
       THEN AfterMark(start_position + batch_count)
       ELSE AfterMark(i + 1)
    /\ UNCHANGED <<storeVars, searchVars, mainVars, gmailVars, messages_to_delete,
                   start_position, batch_size, consecutive_failures,
                   initial_count, num_messages, batch_count, wait_time,
                   total_deleted, backupVars, histVars>>

\* pop.dele(i) succeeds
MarkOk ==
    /\ pc = "mark"
    /\ marks' = marks \cup {i}
    /\ marked_count' = marked_count + 1
    /\ AfterMark(i + 1)
    /\ UNCHANGED <<dates, mailbox, archive, searchVars, mainVars, gmailVars,
                   messages_to_delete, start_position, batch_size,
                   consecutive_failures, initial_count, num_messages,
                   batch_count, errors_this_batch, wait_time, total_deleted,
                   backupVars, histVars>>

\* pop.dele(i) raises and the loop is left at the first failure
MarkFailStops ==
    /\ pc = "mark"
    /\ errors_this_batch' = errors_this_batch + 1
    /\ AfterMark(start_position + batch_count)
    /\ UNCHANGED <<storeVars, searchVars, mainVars, gmailVars, messages_to_delete,
                   start_position, batch_size, consecutive_failures,
                   initial_count, num_messages, batch_count, marked_count,
                   wait_time, total_deleted, backupVars, histVars>>

\* pop.dele(i) raises: the position is skipped; more than 10 errors end the loop
MarkFail ==
    /\ pc = "mark"
    /\ errors_this_batch' = errors_this_batch + 1
    /\ IF errors_this_batch + 1 > MAX_MARK_ERRORS
       THEN AfterMark(start_position + batch_count)
       ELSE AfterMark(i + 1)
    /\ UNCHANGED <<storeVars, searchVars, mainVars, gmailVars, messages_to_delete,
                   start_position, batch_size, consecutive_failures,
                   initial_count, num_messages, batch_count, marked_count,
                   wait_time, total_deleted, backupVars, histVars>>

\* pop.quit() succeeds: the marks are applied, the failure streak ends
CommitOk ==
    /\ pc = "commit"
    /\ last_failure' = "none"
    /\ mailbox' = Expunge(mailbox, marks)
    /\ marks' = {}
    /\ consecutive_failures' = 0
    /\ pc' = "connect"
    /\ committed' = committed + marked_count
    /\ failed_batch' = <<>>
    /\ UNCHANGED <<dates, archive, searchVars, mainVars, gmailVars, messages_to_delete,
                   start_position, batch_size, initial_count, num_messages,
                   batch_count, i, marked_count, errors_this_batch, wait_time,
                   total_deleted, backupVars>>
    /\ QuitSession

\* pop.quit() raises: nothing is applied, the batch will be made again
CommitFail ==
    /\ pc = "commit"
    /\ last_failure' = "commit"
    /\ marks' = {}
    /\ FailureBranch(COMMIT_WAIT_BASE, COMMIT_WAIT_CAP)
    /\ failed_batch' = <<start_position, batch_count, mailbox>>
    /\ UNCHANGED <<dates, mailbox, archive, searchVars, mainVars, gmailVars,
                   messages_to_delete, start_position, batch_size,
                   initial_count, num_messages, batch_count, i, marked_count,
                   errors_this_batch, total_deleted, backupVars, committed>>
    /\ QuitSession

\* the final recount fails and the marks of the last batch are added to the
\* observed shrinkage
FinalFailOptimistic ==
    /\ pc = "final"
    /\ total_deleted' = IF Truthy(initial_count)
                        THEN initial_count - num_messages + marked_count
                        ELSE 0
    /\ pc' = "returned"
    /\ UNCHANGED <<storeVars, searchVars, mainVars, gmailVars, messages_to_delete,
                   start_position, batch_size, consecutive_failures,
                   initial_count, num_messages, batch_count, i, marked_count,
                   errors_this_batch, wait_time, backupVars, histVars>>

\* the final recount succeeds: initial_count - final_count
FinalOk ==
    /\ pc = "final"
    /\ total_deleted' = IF Truthy(initial_count)
                        THEN initial_count - Len(mailbox)
                        ELSE 0
    /\ pc' = "returned"
    /\ UNCHANGED <<storeVars, searchVars, mainVars, gmailVars, messages_to_delete,
                   start_position, batch_size, consecutive_failures,
                   initial_count, num_messages, batch_count, i, marked_count,
                   errors_this_batch, wait_time, backupVars, histVars>>

\* the final recount fails (connect, stat or quit): the last observed count
FinalFail ==
    /\ pc = "final"
    /\ total_deleted' = IF Truthy(initial_count)
                        THEN initial_count - num_messages
                        ELSE 0
    /\ pc' = "returned"
    /\ UNCHANGED <<storeVars, searchVars, mainVars, gmailVars, messages_to_delete,
                   start_position, batch_size, consecutive_failures,
                   initial_count, num_messages, batch_count, i, marked_count,
                   errors_this_batch, wait_time, backupVars, histVars>>

DeleteNext ==
    \/ ConnectOk \/ ConnectFail
    \/ StatOk \/ StatFail
    \/ QuitOk \/ QuitRaise
    \/ MarkOk \/ MarkFail
    \/ CommitOk \/ CommitFail
    \/ FinalOk \/ FinalFail

\* -------------------------------------------------- backup_emails_to_zip
end_pos == start_position + messages_to_delete - 1

\* the loop body entered without testing `remaining > 0`
LoopHeadNoTest(rem) == "b_connect"

\* `while remaining > 0`
LoopHead(rem) == IF rem > 0 THEN "b_connect" ELSE "b_returned"

\* every batch starting at the start of the range
CurrentStartFixed == start_position

\* first position of the batch
CurrentStart == IF delete_after THEN start_position
                ELSE start_position + backed_up

\* year and month under which a message without a usable Date is filed
UNKNOWN_YEAR == 1970
UNKNOWN_MONTH == 1

\* datetime.month: the model's year has YearLen months of one date unit each
Month(d) == (d % YearLen) + 1

\* the bundle emails_<year>-<month>.zip, as the pair that names it
zip_filename(msg_date) ==
    IF msg_date # None THEN <<Year(msg_date), Month(msg_date)>>
    ELSE <<UNKNOWN_YEAR, UNKNOWN_MONTH>>

\* the date part of the entry name: strftime of the Date, or "unknown"
date_str(msg_date) ==
    IF msg_date # None THEN ToString(msg_date) ELSE "unknown"

\* the archive entry with the position in the mailbox as its index
EntryIndexedByPosition(msg_num) ==
    [idx |-> msg_num, msg |-> mailbox[msg_num],
     zip |-> zip_filename(get_message_date(Pop, msg_num)),
     date_str |-> date_str(get_message_date(Pop, msg_num))]

\* the archive entry of the message at position msg_num: its index in the
\* entry name is backed_up + len(batch_emails) + 1, its bundle and the date
\* in its name come from get_message_date
Entry(msg_num) ==
    [idx |-> backed_up + Len(batch_emails) + 1, msg |-> mailbox[msg_num],
     zip |-> zip_filename(get_message_date(Pop, msg_num)),
     date_str |-> date_str(get_message_date(Pop, msg_num))]

BConnectOk ==
    /\ pc = "b_connect"
    /\ pc' = "b_stat"
    /\ marks' = {}
    /\ UNCHANGED <<dates, mailbox, archive, searchVars, mainVars, gmailVars,
                   messages_to_delete, start_position, batch_size,
                   consecutive_failures, initial_count, num_messages,
                   batch_count, i, marked_count, errors_this_batch, wait_time,
                   total_deleted, backupVars, committed, failed_batch,
                   last_failure>>
    /\ OpenSession

\* connect_pop3 raises: stop at the ceiling, otherwise sleep 30 * failures
BConnectFail ==
    /\ pc = "b_connect"
    /\ \E kind \in {"connection", "auth"} : last_failure' = kind
    /\ consecutive_failures' = consecutive_failures + 1
    /\ IF consecutive_failures + 1 >= MAX_FAILURES
       THEN pc' = "b_returned" /\ UNCHANGED wait_time
       ELSE pc' = "b_connect"
            /\ wait_time' = CONN_WAIT_BASE * (consecutive_failures + 1)
    /\ UNCHANGED <<storeVars, searchVars, mainVars, gmailVars, messages_to_delete,
                   start_position, batch_size, initial_count, num_messages,
                   batch_count, i, marked_count, errors_this_batch,
                   total_deleted, backupVars, committed, failed_batch>>
    /\ UNCHANGED open_sessions

\* pop.stat() succeeds: the batch range, or the end of the run when the
\* start is beyond the mailbox
BStatOk ==
    /\ pc = "b_stat"
    /\ num_messages' = Len(mailbox)
    /\ IF CurrentStart > Len(mailbox)
       THEN /\ pc' = "b_returned"
            /\ QuitSession
            /\ UNCHANGED <<batch_count, i, batch_emails, batch_msg_nums>>
       ELSE /\ batch_count' = BatchCount(BACKUP_BATCH_SIZE, remaining,
                                         Len(mailbox) - CurrentStart + 1)
            /\ i' = CurrentStart
            /\ batch_emails' = <<>>
            /\ batch_msg_nums' = <<>>
            /\ pc' = "b_fetch"
            /\ UNCHANGED open_sessions
    /\ UNCHANGED <<storeVars, searchVars, mainVars, gmailVars, messages_to_delete,
                   start_position, batch_size, consecutive_failures,
                   initial_count, marked_count, errors_this_batch, wait_time,
                   total_deleted, delete_after, backed_up, deleted, remaining,
                   committed, failed_batch,
                   last_failure>>

\* pop.stat() raises: counted, no ceiling check, no wait. The count is kept
\* up to MaxCF >= max_failures; every test the code makes of it is
\* `>= max_failures`, which no larger value answers differently.
BStatFail ==
    /\ pc = "b_stat"
    /\ last_failure' = "stat"
    /\ consecutive_failures' = Min(consecutive_failures + 1, MaxCF)
    /\ pc' = "b_connect"
    /\ UNCHANGED <<storeVars, searchVars, mainVars, gmailVars, messages_to_delete,
                   start_position, batch_size, initial_count, num_messages,
                   batch_count, i, marked_count, errors_this_batch, wait_time,
                   total_deleted, backupVars, committed, failed_batch>>
    /\ QuitSession

\* after the fetch loop: the ceiling check, then the write
AfterFetch(next, failures) ==
    /\ i' = next
    /\ pc' = IF failures >= MAX_FAILURES THEN "b_returned"
             ELSE IF next > CurrentStart + batch_count - 1 THEN "b_write"
             ELSE "b_fetch"
    /\ IF failures >= MAX_FAILURES THEN QuitSession
       ELSE UNCHANGED open_sessions

\* pop.retr(msg_num) raises and the position is queued for deletion all the same
BFetchFailQueued ==
    /\ pc = "b_fetch"
    /\ last_failure' = "fetch"
    /\ consecutive_failures' = consecutive_failures + 1
    /\ batch_msg_nums' = Append(batch_msg_nums, i)
    /\ AfterFetch(i + 1, consecutive_failures + 1)
    /\ UNCHANGED <<storeVars, searchVars, mainVars, gmailVars, messages_to_delete,
                   start_position, batch_size, initial_count, num_messages,
                   batch_count, marked_count, errors_this_batch, wait_time,
                   total_deleted, delete_after, backed_up, deleted, remaining,
                   batch_emails, committed, failed_batch>>

\* pop.retr(msg_num) succeeds: the message joins the batch
BFetchOk ==
    /\ pc = "b_fetch"
    /\ batch_emails' = Append(batch_emails, Entry(i))
    /\ batch_msg_nums' = Append(batch_msg_nums, i)
    /\ IF i + 1 > CurrentStart + batch_count - 1
       THEN AfterFetch(i + 1, consecutive_failures)
       ELSE i' = i + 1 /\ pc' = "b_fetch" /\ UNCHANGED open_sessions
    /\ UNCHANGED <<storeVars, searchVars, mainVars, gmailVars, messages_to_delete,
                   start_position, batch_size, consecutive_failures,
                   initial_count, num_messages, batch_count, marked_count,
                   errors_this_batch, wait_time, total_deleted, delete_after,
                   backed_up, deleted, remaining, committed, failed_batch,
                   last_failure>>

\* pop.retr(msg_num) raises: counted; the ceiling ends the loop and the run
BFetchFail ==
    /\ pc = "b_fetch"
    /\ last_failure' = "fetch"
    /\ consecutive_failures' = consecutive_failures + 1
    /\ AfterFetch(i + 1, consecutive_failures + 1)
    /\ UNCHANGED <<storeVars, searchVars, mainVars, gmailVars, messages_to_delete,
                   start_position, batch_size, initial_count, num_messages,
                   batch_count, marked_count, errors_this_batch, wait_time,
                   total_deleted, backupVars, committed, failed_batch>>

\* the batch is written to the ZIP bundles and counted; then either the
\* marking starts or the session is closed and the failure count reset
BWrite ==
    /\ pc = "b_write"
    /\ archive' = archive \o batch_emails
    /\ backed_up' = backed_up + Len(batch_emails)
    /\ remaining' = remaining - Len(batch_emails)
    /\ IF delete_after /\ batch_msg_nums # <<>>
       THEN /\ pc' = "b_mark"
            /\ i' = 1
            /\ UNCHANGED <<consecutive_failures, last_failure, open_sessions>>
       ELSE /\ pc' = LoopHead(remaining - Len(batch_emails))
            /\ QuitSession
            /\ consecutive_failures' = 0
            /\ last_failure' = "none"
            /\ UNCHANGED i
    /\ UNCHANGED <<dates, mailbox, marks, searchVars, mainVars, gmailVars,
                   messages_to_delete, start_position, batch_size,
                   initial_count, num_messages, batch_count, marked_count,
                   errors_this_batch, wait_time, total_deleted, delete_after,
                   deleted, batch_emails, batch_msg_nums, committed,
                   failed_batch>>

\* the marking loop over batch_msg_nums, i being the index into it
AfterBMark ==
    /\ i' = i + 1
    /\ pc' = IF i + 1 > Len(batch_msg_nums) THEN "b_commit" ELSE "b_mark"

\* pop.dele(msg_num) succeeds
BMarkOk ==
    /\ pc = "b_mark"
    /\ marks' = marks \cup {batch_msg_nums[i]}
    /\ AfterBMark
    /\ UNCHANGED <<dates, mailbox, archive, searchVars, mainVars, gmailVars,
                   messages_to_delete, start_position, batch_size,
                   consecutive_failures, initial_count, num_messages,
                   batch_count, marked_count, errors_this_batch, wait_time,
                   total_deleted, backupVars, histVars>>

\* pop.dele(msg_num) raises: logged, the position stays unmarked
BMarkFail ==
    /\ pc = "b_mark"
    /\ AfterBMark
    /\ UNCHANGED <<storeVars, searchVars, mainVars, gmailVars, messages_to_delete,
                   start_position, batch_size, consecutive_failures,
                   initial_count, num_messages, batch_count, marked_count,
                   errors_this_batch, wait_time, total_deleted, backupVars,
                   histVars>>

\* the commit counting the messages asked for, fetched or not
BCommitOkCountsRequested ==
    /\ pc = "b_commit"
    /\ last_failure' = "none"
    /\ mailbox' = Expunge(mailbox, marks)
    /\ marks' = {}
    /\ deleted' = deleted + batch_count
    /\ consecutive_failures' = 0
    /\ pc' = LoopHead(remaining)
    /\ committed' = committed + Cardinality(marks)
    /\ failed_batch' = <<>>
    /\ UNCHANGED <<dates, archive, searchVars, mainVars, gmailVars, messages_to_delete,
                   start_position, batch_size, initial_count, num_messages,
                   batch_count, i, marked_count, errors_this_batch, wait_time,
                   total_deleted, delete_after, backed_up, remaining,
                   batch_emails, batch_msg_nums>>
    /\ QuitSession

\* pop.quit() succeeds: deleted += len(batch_msg_nums)
BCommitOk ==
    /\ pc = "b_commit"
    /\ last_failure' = "none"
    /\ mailbox' = Expunge(mailbox, marks)
    /\ marks' = {}
    /\ deleted' = deleted + Len(batch_msg_nums)
    /\ consecutive_failures' = 0
    /\ pc' = LoopHead(remaining)
    /\ committed' = committed + Cardinality(marks)
    /\ failed_batch' = <<>>
    /\ UNCHANGED <<dates, archive, searchVars, mainVars, gmailVars, messages_to_delete,
                   start_position, batch_size, initial_count, num_messages,
                   batch_count, i, marked_count, errors_this_batch, wait_time,
                   total_deleted, delete_after, backed_up, remaining,
                   batch_emails, batch_msg_nums>>
    /\ QuitSession

\* pop.quit() raises and the counters are left as the batch advanced them
BCommitFailNoRollback ==
    /\ pc = "b_commit"
    /\ last_failure' = "commit"
    /\ Len(archive) <= MaxEntries
    /\ marks' = {}
    /\ consecutive_failures' = consecutive_failures + 1
    /\ wait_time' = CONN_WAIT_BASE * (consecutive_failures + 1)
    /\ pc' = "b_connect"
    /\ failed_batch' = <<CurrentStart, batch_count, mailbox>>
    /\ UNCHANGED <<dates, mailbox, archive, searchVars, mainVars, gmailVars,
                   messages_to_delete, start_position, batch_size,
                   initial_count, num_messages, batch_count, i, marked_count,
                   errors_this_batch, total_deleted, delete_after, deleted,
                   backed_up, remaining, batch_emails, batch_msg_nums,
                   committed>>
    /\ QuitSession

\* pop.quit() raises: the counters are rolled back, the entries stay written
BCommitFail ==
    /\ pc = "b_commit"
    /\ last_failure' = "commit"
    /\ Len(archive) <= MaxEntries
    /\ marks' = {}
    /\ consecutive_failures' = consecutive_failures + 1
    /\ backed_up' = backed_up - Len(batch_emails)
    /\ remaining' = remaining + Len(batch_emails)
    /\ wait_time' = CONN_WAIT_BASE * (consecutive_failures + 1)
    /\ pc' = "b_connect"
    /\ failed_batch' = <<CurrentStart, batch_count, mailbox>>
    /\ UNCHANGED <<dates, mailbox, archive, searchVars, mainVars, gmailVars,
                   messages_to_delete, start_position, batch_size,
                   initial_count, num_messages, batch_count, i, marked_count,
                   errors_this_batch, total_deleted, delete_after, deleted,
                   batch_emails, batch_msg_nums, committed>>
    /\ QuitSession

BackupNext ==
    \/ BConnectOk \/ BConnectFail
    \/ BStatOk \/ BStatFail
    \/ BFetchOk \/ BFetchFail
    \/ BWrite
    \/ BMarkOk \/ BMarkFail
    \/ BCommitOk \/ BCommitFail

\* ------------------------------- Gmail API backup_emails_to_zip (gmailbyebye)
\* the state that the Gmail backup neither reads after its start nor writes
gmailFrame == <<dates, marks, searchVars, mainVars, messages_to_delete,
                start_position, batch_size, initial_count, num_messages,
                batch_count, marked_count, errors_this_batch, wait_time,
                total_deleted, delete_after, remaining, batch_msg_nums,
                message_ids, committed, failed_batch>>

\* batch_ids = message_ids[batch_start:batch_end]
batch_ids ==
    SubSeq(message_ids, batch_start + 1,
           Min(batch_start + batch_size, Len(message_ids)))

\* `for batch_start in range(0, total, batch_size)`: the next batch, or the end
GmailLoopHead(start) ==
    IF start < Len(message_ids) THEN "g_fetch" ELSE "g_returned"

\* the end of one batch: on to the next value of batch_start
GmailNextBatch ==
    /\ batch_start' = batch_start + batch_size
    /\ pc' = GmailLoopHead(batch_start + batch_size)
    /\ i' = 0

\* after the message at index i of `enumerate(batch_ids)` (batch_emails is
\* emptied at index 0, the start of the batch): the next message, or the
\* ceiling check behind the fetch loop and then the write
GmailAfterFetch(failures) ==
    /\ i' = i + 1
    /\ pc' = IF failures >= GMAIL_MAX_FAILURES THEN "g_returned"
             ELSE IF i + 1 >= Len(batch_ids) THEN "g_write"
             ELSE "g_fetch"

\* get_full_message returns the content: the message joins batch_emails
GFetchOk ==
    /\ pc = "g_fetch"
    /\ batch_emails' =
         Append(IF i = 0 THEN <<>> ELSE batch_emails,
                [idx |-> backed_up + (IF i = 0 THEN 0 ELSE Len(batch_emails)) + 1,
                 msg |-> batch_ids[i + 1]])
    /\ GmailAfterFetch(consecutive_failures)
    /\ UNCHANGED <<gmailFrame, mailbox, archive, consecutive_failures,
                   backed_up, deleted, batch_start, batch_msg_ids,
                   last_failure>>
    /\ UNCHANGED open_sessions

\* get_full_message returns None (HttpError) or empty content: `continue`
GFetchNone ==
    /\ pc = "g_fetch"
    /\ batch_emails' = IF i = 0 THEN <<>> ELSE batch_emails
    /\ GmailAfterFetch(consecutive_failures)
    /\ UNCHANGED <<gmailFrame, mailbox, archive, consecutive_failures,
                   backed_up, deleted, batch_start, batch_msg_ids,
                   last_failure>>
    /\ UNCHANGED open_sessions

\* the fetch raises: counted; at the ceiling the loop and the run end
GFetchRaise ==
    /\ pc = "g_fetch"
    /\ batch_emails' = IF i = 0 THEN <<>> ELSE batch_emails
    /\ consecutive_failures' = consecutive_failures + 1
    /\ last_failure' = "fetch"
    /\ GmailAfterFetch(consecutive_failures + 1)
    /\ UNCHANGED <<gmailFrame, mailbox, archive, backed_up, deleted,
                   batch_start, batch_msg_ids>>
    /\ UNCHANGED open_sessions

\* the batch is written to the ZIP bundles; with delete_after and a
\* non-empty batch, batch_msg_ids = batch_ids[:len(batch_emails)] is deleted
GWrite ==
    /\ pc = "g_write"
    /\ archive' = archive \o batch_emails
    /\ backed_up' = backed_up + Len(batch_emails)
    /\ consecutive_failures' = 0
    /\ last_failure' = "none"
    /\ IF delete_after /\ batch_emails # <<>>
       THEN /\ batch_msg_ids' = SubSeq(batch_ids, 1, Len(batch_emails))
            /\ pc' = "g_delete"
            /\ UNCHANGED <<batch_start, i>>
       ELSE /\ GmailNextBatch
            /\ UNCHANGED batch_msg_ids
    /\ UNCHANGED <<gmailFrame, mailbox, deleted, batch_emails>>
    /\ UNCHANGED open_sessions

\* delete_messages_batch succeeds: the ids are removed from the store
GDeleteOk ==
    /\ pc = "g_delete"
    /\ mailbox' = SelectSeq(mailbox, LAMBDA m : m \notin Range(batch_msg_ids))
    /\ deleted' = deleted + Len(batch_msg_ids)
    /\ GmailNextBatch
    /\ UNCHANGED <<gmailFrame, archive, consecutive_failures, backed_up,
                   batch_emails, batch_msg_ids, last_failure>>
    /\ UNCHANGED open_sessions

\* delete_messages_batch raises: counted, the pipeline goes on
GDeleteFail ==
    /\ pc = "g_delete"
    /\ consecutive_failures' = consecutive_failures + 1
    /\ last_failure' = "delete"
    /\ GmailNextBatch
    /\ UNCHANGED <<gmailFrame, mailbox, archive, backed_up, deleted,
                   batch_emails, batch_msg_ids>>
    /\ UNCHANGED open_sessions

GmailNext ==
    \/ GFetchOk \/ GFetchNone \/ GFetchRaise
    \/ GWrite
    \/ GDeleteOk \/ GDeleteFail

\* --------------------------------------- Gmail delete_messages_robust
\* max_failures of the Gmail delete_messages_robust
GMAIL_DELETE_MAX_FAILURES == 10

gmailDeleteFrame == <<dates, marks, archive, searchVars, mainVars,
                      messages_to_delete, start_position, batch_size,
                      initial_count, num_messages, batch_count, i,
                      marked_count, errors_this_batch, delete_after,
                      backed_up, remaining, batch_emails, batch_msg_nums,
                      message_ids, batch_msg_ids, failed_batch,
                      open_sessions>>

\* the wait of the except branches: rate limit (HTTP 429), server error
\* (HTTP 5xx), other HTTP error (no wait), network error, anything else
GmailDeleteWait(kind, failures, current) ==
    CASE kind = "rate" -> Min(60 * (failures + 1), 300)
      [] kind = "server" -> Min(30 * (failures + 1), 120)
      [] kind = "client" -> current
      [] OTHER -> Min(30 * (failures + 1), 120)

\* `while batch_start < total` with the ceiling test at the top of the body
GDRContinues ==
    /\ batch_start < Len(message_ids)
    /\ consecutive_failures < GMAIL_DELETE_MAX_FAILURES

\* delete_messages_batch succeeds: the batch is gone, on to the next
GDRDeleteOk ==
    /\ pc = "gd_loop"
    /\ GDRContinues
    /\ mailbox' = SelectSeq(mailbox, LAMBDA m : m \notin Range(batch_ids))
    /\ deleted' = deleted + Len(batch_ids)
    /\ committed' = committed + Len(batch_ids)
    /\ consecutive_failures' = 0
    /\ last_failure' = "none"
    /\ batch_start' = Min(batch_start + batch_size, Len(message_ids))
    /\ UNCHANGED <<gmailDeleteFrame, pc, wait_time, total_deleted>>

\* delete_messages_batch raises and the batch is given up
GDRDeleteFailMovesOn ==
    /\ pc = "gd_loop"
    /\ GDRContinues
    /\ \E kind \in {"rate", "server", "client", "network", "other"} :
         /\ last_failure' = kind
         /\ wait_time' = GmailDeleteWait(kind, consecutive_failures, wait_time)
    /\ consecutive_failures' = consecutive_failures + 1
    /\ batch_start' = Min(batch_start + batch_size, Len(message_ids))
    /\ UNCHANGED <<gmailDeleteFrame, pc, mailbox, deleted, committed,
                   total_deleted>>

\* delete_messages_batch raises: counted, waited for, the same batch again
GDRDeleteFail ==
    /\ pc = "gd_loop"
    /\ GDRContinues
    /\ \E kind \in {"rate", "server", "client", "network", "other"} :
         /\ last_failure' = kind
         /\ wait_time' = GmailDeleteWait(kind, consecutive_failures, wait_time)
    /\ consecutive_failures' = consecutive_failures + 1
    /\ UNCHANGED <<gmailDeleteFrame, pc, mailbox, deleted, committed,
                   batch_start, total_deleted>>

\* the loop ends, by its condition or by the ceiling: `return deleted`
GDRReturn ==
    /\ pc = "gd_loop"
    /\ ~GDRContinues
    /\ pc' = "gd_returned"
    /\ total_deleted' = deleted
    /\ UNCHANGED <<gmailDeleteFrame, mailbox, deleted, committed,
                   consecutive_failures, last_failure, batch_start, wait_time>>

GmailDeleteNext == GDRDeleteOk \/ GDRDeleteFail \/ GDRReturn

\* ------------------------------------------------------- specifications
\* a second batch size, small enough for runs of several batches
SmallBatch == 2

BatchSizes == {SmallBatch, DEFAULT_BATCH_SIZE}

\* one of the two engines is called, under an unreliable transport, with a
\* range inside the mailbox: 1 <= start, end <= N, the range being empty when
\* messages_to_delete = end - start + 1 is 0
InitCall ==
    /\ \E n \in 1..MaxN :
         /\ dates = [m \in 1..n |-> 0]
         /\ mailbox = [p \in 1..n |-> p]
    /\ marks = {} /\ archive = <<>>
    /\ SearchIdle /\ GmailIdle
    /\ \E size \in BatchSizes :
         /\ config = [DELETE_YEARS |-> <<>>, CUTOFF_DATE |-> None,
                      BATCH_SIZE |-> size]
         /\ batch_size = CappedBatchSize(config)
    /\ start_position \in 1..Len(dates)
    /\ messages_to_delete \in 0..(Len(dates) - start_position + 1)
    /\ range = [start_pos |-> start_position, end_pos |-> end_pos,
                count |-> messages_to_delete]
    /\ \/ pc = "connect" /\ delete_after = TRUE
       \/ pc = LoopHead(messages_to_delete) /\ delete_after \in BOOLEAN
    /\ consecutive_failures = 0
    /\ initial_count = None
    /\ num_messages = None
    /\ batch_count = 0 /\ i = 0 /\ marked_count = 0 /\ errors_this_batch = 0
    /\ wait_time = 0 /\ total_deleted = None
    /\ backed_up = 0 /\ deleted = 0
    /\ remaining = IF pc = "connect" THEN 0 ELSE messages_to_delete
    /\ batch_emails = <<>> /\ batch_msg_nums = <<>>
    /\ committed = 0 /\ failed_batch = <<>> /\ last_failure = "none"
    /\ open_sessions = 0

\* main() is started on a mailbox whose messages all have Date 0, with a
\* cutoff at that date (nothing to delete) or after it (everything)
InitRun ==
    /\ \E n \in 1..MaxN :
         /\ dates = [m \in 1..n |-> 0]
         /\ mailbox = [p \in 1..n |-> p]
    /\ marks = {} /\ archive = <<>>
    /\ SearchIdle /\ GmailIdle
    /\ \E size \in BatchSizes, cutoff \in 0..1 :
         config = [DELETE_YEARS |-> <<>>, CUTOFF_DATE |-> cutoff,
                   BATCH_SIZE |-> size]
    /\ range = NoRange
    /\ pc = "main" /\ messages_to_delete = 0 /\ start_position = 1
    /\ batch_size = 0 /\ delete_after = FALSE
    /\ EngineLocalsInit

Init == InitCall \/ InitRun

Next == Resolve \/ DeleteNext \/ BackupNext

Spec == Init /\ [][Next]_vars

\* one call of delete_messages_robust, run as the interpreter runs it: the
\* call always takes its next step, whose outcome the transport decides
InitDelete == InitCall /\ pc = "connect"

FairDelete == InitDelete /\ [][DeleteNext]_vars /\ WF_vars(DeleteNext)

\* one call of backup_emails_to_zip, run the same way
InitBackup == InitCall /\ pc # "connect"

FairBackup == InitBackup /\ [][BackupNext]_vars /\ WF_vars(BackupNext)

\* one call of the Gmail backup_emails_to_zip on the ids a search returned
InitGmail ==
    /\ \E n \in 1..GmailMaxN :
         /\ dates = [m \in 1..n |-> 0]
         /\ mailbox = [p \in 1..n |-> p]
    /\ message_ids = mailbox
    /\ marks = {} /\ archive = <<>>
    /\ SearchIdle
    /\ \E size \in {SmallBatch, GMAIL_BATCH_SIZE} :
         /\ config = [DELETE_YEARS |-> <<>>, CUTOFF_DATE |-> None,
                      BATCH_SIZE |-> size]
         /\ batch_size = size
    /\ range = NoRange
    /\ messages_to_delete = 0 /\ start_position = 1
    /\ delete_after \in BOOLEAN
    /\ EngineLocalsInit
    /\ batch_start = 0 /\ batch_msg_ids = <<>>
    /\ pc = "g_fetch"

SpecGmail == InitGmail /\ [][GmailNext]_vars

\* one call of the Gmail delete_messages_robust on the ids a search returned
InitGmailDelete ==
    /\ \E n \in 0..GmailMaxN :
         /\ dates = [m \in 1..n |-> 0]
         /\ mailbox = [p \in 1..n |-> p]
    /\ message_ids = mailbox
    /\ marks = {} /\ archive = <<>>
    /\ SearchIdle
    /\ \E size \in {SmallBatch, GMAIL_BATCH_SIZE} :
         /\ config = [DELETE_YEARS |-> <<>>, CUTOFF_DATE |-> None,
                      BATCH_SIZE |-> size]
         /\ batch_size = size
    /\ range = NoRange
    /\ messages_to_delete = 0 /\ start_position = 1
    /\ delete_after = FALSE
    /\ EngineLocalsInit
    /\ batch_start = 0 /\ batch_msg_ids = <<>>
    /\ pc = "gd_loop"

\* the call as the interpreter runs it: a step that can be taken is taken
FairGmailDelete ==
    InitGmailDelete /\ [][GmailDeleteNext]_vars /\ WF_vars(GmailDeleteNext)

\* main(): the range is resolved from the configuration on a mailbox with
\* parseable, non-decreasing dates, then deleted over a transport that works
Years == 0..(Year(MaxDate) + 1)

InitMain ==
    /\ dates \in {d \in SeqsOf(0..MaxDate, 1, MainMaxN) : SortedParseable(d)}
    /\ mailbox = [p \in 1..Len(dates) |-> p]
    /\ marks = {} /\ archive = <<>>
    /\ SearchIdle /\ GmailIdle
    /\ \E size \in BatchSizes :
         \/ \E cutoff \in 0..(MaxDate + 1) :
              config = [DELETE_YEARS |-> <<>>, CUTOFF_DATE |-> cutoff,
                        BATCH_SIZE |-> size]
         \/ \E y1 \in Years, y2 \in Years :
              /\ y1 <= y2
              /\ config = [DELETE_YEARS |-> <<y1, y2>>, CUTOFF_DATE |-> None,
                           BATCH_SIZE |-> size]
    /\ range = NoRange
    /\ pc = "main" /\ messages_to_delete = 0 /\ start_position = 1
    /\ batch_size = 0 /\ delete_after = FALSE
    /\ EngineLocalsInit

NextMain ==
    \/ Resolve
    \/ ConnectOk \/ StatOk \/ QuitOk \/ MarkOk \/ CommitOk \/ FinalOk

SpecMain == InitMain /\ [][NextMain]_vars

\* ------------------------------------------------------------ claim C1
\* R is a FirstGte boundary of pop for target: R is in 1..N+1, the position
\* before R (if any) is dated before target, position R (if any) at or after
FirstGteBoundary(pop, target, R) ==
    /\ R \in 1..(Len(pop) + 1)
    /\ (R - 1 >= 1 => pop[R - 1] < target)
    /\ (R <= Len(pop) => pop[R] >= target)

\* C1: on a mailbox whose positions all have a parseable Date, non-decreasing
\* in position, binary_search_date(find_first_gte=True) and
\* binary_search_cutoff return R in 1..N+1 with Date < T at R-1 and
\* Date >= T at R, for every size N and target T.
C1_FirstGteBoundary ==
    (spc = "done" /\ find_first_gte /\ SortedParseable(Pop)) =>
        /\ FirstGteBoundary(Pop, target_date, result)
        /\ FirstGteBoundary(Pop, target_date,
                            binary_search_cutoff(Pop, Len(mailbox), target_date))

\* the search has returned an interior boundary of a sorted mailbox
C1_Witness ==
    /\ spc = "done" /\ find_first_gte /\ SortedParseable(Pop)
    /\ Len(mailbox) >= 4
    /\ result \in 3..Len(mailbox)
    /\ Pop[result - 1] < target_date /\ Pop[result] >= target_date

\* ------------------------------------------------------------ claim C2
InBackup == pc \in {"b_connect", "b_stat", "b_fetch", "b_write", "b_mark",
                    "b_commit", "b_returned"}

InDelete == pc \in {"connect", "stat", "quit", "mark", "commit", "final",
                    "returned", "raised"}

\* the messages that have an archive entry
Archived == {archive[k].msg : k \in 1..Len(archive)}

\* the number of messages removed from the store
Shrinkage == Len(dates) - Len(mailbox)

\* C2: in the backup pipeline with delete_after, every message removed from
\* the mailbox has an archive entry, and when a commit is about to be
\* attempted every marked message already has its entry written.
C2_ArchivedBeforeDeleted ==
    (InBackup /\ delete_after) =>
        /\ Removed \subseteq Archived
        /\ (pc \in {"b_mark", "b_commit"} =>
                \A p \in marks : mailbox[p] \in Archived)

\* a later batch is about to commit after an earlier batch removed messages
C2_Witness ==
    /\ InBackup /\ delete_after
    /\ pc = "b_commit" /\ marks # {}
    /\ Removed # {}

\* ------------------------------------------------------------ claim C3
EntriesOf(m) == {k \in 1..Len(archive) : archive[k].msg = m}

\* C3: after a backup-then-delete run that processed the whole range, every
\* message of the target range appears in exactly one archive entry.
C3_ExactlyOneEntry ==
    (pc = "b_returned" /\ delete_after /\ remaining = 0) =>
        \A m \in start_position..end_pos : Cardinality(EntriesOf(m)) = 1

\* ------------------------------------------------------------ claim C4
\* C4: with no other writer, the messages removed by delete_messages_robust
\* and by backup_emails_to_zip(delete_after) are among those that occupied
\* positions start..end when the range was resolved.
C4_OnlyRangeDeleted ==
    Removed \subseteq start_position..end_pos

\* delete_messages_robust has returned after removing a range that lies
\* strictly inside the mailbox
C4_Witness ==
    /\ Removed # {}
    /\ start_position > 1 /\ end_pos < Len(dates)
    /\ pc = "returned" /\ Removed = start_position..end_pos

\* ------------------------------------------------------------ claim C5
\* C5: in delete_messages_robust, after a failed commit the mailbox is as it
\* was before the batch and the next batch covers the same start and count;
\* the number of messages removed is the sum of the marks of the batches
\* whose commit succeeded.
C5_FailedBatchRetried ==
    InDelete =>
        /\ (pc \in {"mark", "commit"} /\ failed_batch # <<>> =>
                failed_batch = <<start_position, batch_count, mailbox>>)
        /\ Shrinkage = committed

\* the batch whose commit failed has been marked again, after an earlier
\* batch was committed
C5_Witness ==
    /\ InDelete /\ pc = "commit" /\ marks # {}
    /\ failed_batch # <<>> /\ committed > 0

\* ------------------------------------------------------------ claim C6
\* C6: the value returned by delete_messages_robust never exceeds the number
\* of messages removed from the mailbox.
C6_NoOverReport ==
    pc = "returned" => total_deleted <= Shrinkage

\* FAILED at the failure ceiling with partial progress reported
C6_Witness ==
    /\ pc = "returned"
    /\ consecutive_failures >= MAX_FAILURES
    /\ total_deleted > 0 /\ total_deleted < messages_to_delete

\* ------------------------------------------------------------ claim C7
\* C7: the value returned by delete_messages_robust equals initial_count
\* minus the mailbox count at the time of return.
C7_ReportedEqualsShrinkage ==
    pc = "returned" => total_deleted = Shrinkage

\* ------------------------------------------------------------ claim C8
\* C8: the deleted counter returned by backup_emails_to_zip(delete_after)
\* equals the number of messages removed from the mailbox.
C8_DeletedEqualsShrinkage ==
    (pc = "b_returned" /\ delete_after) => deleted = Shrinkage

\* ------------------------------------------------------------ claim C9
\* the positions of pop dated before the cutoff
Before(pop, cutoff) == {p \in 1..Len(pop) : pop[p] < cutoff}

\* r deletes exactly the positions of pop dated before the cutoff
IsCutoffRange(pop, cutoff, r) ==
    LET b == Cardinality(Before(pop, cutoff)) IN
    /\ Before(pop, cutoff) = 1..b
    /\ IF b = 0
       THEN r = EmptyRange
       ELSE r = [start_pos |-> 1, end_pos |-> b, count |-> b]

\* ten messages dated 2020-01-01 .. 2020-01-10 (the day of January)
TenDays == [p \in 1..10 |-> p]

TenDaysConfig == [DELETE_YEARS |-> <<>>, CUTOFF_DATE |-> 5,
                  BATCH_SIZE |-> DEFAULT_BATCH_SIZE]

\* C9: in cutoff mode on a mailbox with parseable, non-decreasing dates the
\* range is [1, R-1], exactly the positions dated before the cutoff (empty
\* with count 0 when there is none); pop3_cleanup_fast deletes as many; and
\* ten messages dated 01..10 with cutoff 05 give positions 1..4.
C9_CutoffRange ==
    (pc # "main" /\ config.DELETE_YEARS = <<>>) =>
        /\ IsCutoffRange(dates, config.CUTOFF_DATE, range)
        /\ binary_search_cutoff(dates, Len(dates), config.CUTOFF_DATE) - 1
             = Cardinality(Before(dates, config.CUTOFF_DATE))
        /\ get_deletion_range(TenDays, 10, TenDaysConfig, None, None)
             = [start_pos |-> 1, end_pos |-> 4, count |-> 4]
        /\ get_deletion_range(TenDays, 10, TenDaysConfig, 1, 10)
             = [start_pos |-> 1, end_pos |-> 4, count |-> 4]

\* a cutoff strictly inside the mailbox has been resolved
C9_Witness ==
    /\ pc # "main" /\ config.DELETE_YEARS = <<>>
    /\ range.count >= 2 /\ range.end_pos < Len(dates)
    /\ dates[range.end_pos] < config.CUTOFF_DATE
    /\ dates[range.end_pos + 1] >= config.CUTOFF_DATE

\* ------------------------------------------------------------ claim C10
\* the messages dated in the years Y1..Y2 of the configuration
InYears == {m \in 1..Len(dates) :
              /\ Year(dates[m]) >= config.DELETE_YEARS[1]
              /\ Year(dates[m]) <= config.DELETE_YEARS[2]}

\* C10: in year-range mode on a mailbox with parseable, non-decreasing dates,
\* the resolved range followed by a run of delete_messages_robust without
\* failures leaves exactly the messages dated outside Y1..Y2, in order; when
\* the range is empty no message is dated in Y1..Y2.
C10_YearRangeComplement ==
    (config.DELETE_YEARS # <<>>) =>
        /\ (pc = "returned" =>
              /\ mailbox = SelectSeq([m \in 1..Len(dates) |-> m],
                                     LAMBDA m : m \notin InYears)
              /\ Len(mailbox) = Len(dates) - Cardinality(InYears)
              /\ total_deleted = Cardinality(InYears))
        /\ (pc = "exit" => InYears = {})

\* a year range strictly inside the mailbox was deleted in several batches
C10_Witness ==
    /\ config.DELETE_YEARS # <<>> /\ pc = "returned"
    /\ start_position > 1 /\ end_pos < Len(dates)
    /\ messages_to_delete > batch_size
    /\ Len(mailbox) = Len(dates) - messages_to_delete

\* ----------------------------------------------------------- claim C11
\* C11: acting on an empty range performs zero marks and zero commits: when
\* get_deletion_range yields count 0 main() calls neither engine,
\* backup_emails_to_zip called with an empty range opens no session, and
\* delete_messages_robust called with target 0 marks nothing and never reaches
\* the commit of a batch.
C11_EmptyRangeNoMarksNoCommits ==
    range.count = 0 =>
        /\ pc \notin {"mark", "commit", "b_mark", "b_commit"}
        /\ marks = {} /\ Removed = {} /\ committed = 0
        /\ (config.CUTOFF_DATE # None => pc = "exit")
        /\ (InBackup => pc = "b_returned")

\* delete_messages_robust has returned from a call with target 0
C11_Witness ==
    /\ range.count = 0 /\ messages_to_delete = 0
    /\ pc = "returned" /\ total_deleted = 0

\* ----------------------------------------------------------- claim C12
\* a step of delete_messages_robust that continues a streak of consecutive
\* failures and waits: the failure count goes from c >= 1 to c + 1, below the
\* ceiling (at the ceiling the loop is left without a wait)
StreakWait ==
    /\ InDelete
    /\ consecutive_failures >= 1
    /\ consecutive_failures' = consecutive_failures + 1
    /\ consecutive_failures' < MAX_FAILURES

\* the two backoff schedules: commit failures, and connection or STAT failures
WaitClass(kind) == IF kind = "commit" THEN "commit" ELSE "connection"

\* C12 as stated: along a streak of consecutive failures of
\* delete_messages_robust, in any mix of connection, STAT and commit
\* failures, each wait is at least the wait before it.
C12_WaitsNonDecreasing ==
    [][StreakWait => wait_time' >= wait_time]_vars

\* C12 amended: along a streak of consecutive failures of
\* delete_messages_robust, a failure that follows a failure of the same
\* schedule (both commit failures, or both connection/STAT failures) waits at
\* least as long as the one before it.
C12_WaitsNonDecreasingSameKind ==
    [][(StreakWait /\ WaitClass(last_failure') = WaitClass(last_failure))
          => wait_time' >= wait_time]_vars

\* a streak has reached the cap of the connection schedule after a third
\* failure that waited less than the cap
C12_Witness ==
    /\ InDelete /\ pc = "connect"
    /\ consecutive_failures = 4 /\ last_failure = "stat"
    /\ wait_time = CONN_WAIT_CAP

\* ----------------------------------------------------------- claim C13
\* no position has a Date at or after, respectively before, the target
NoneAtOrAfter(pop, target) ==
    \A p \in 1..Len(pop) : pop[p] = None \/ pop[p] < target

NoneBefore(pop, target) ==
    \A p \in 1..Len(pop) : pop[p] = None \/ pop[p] >= target

\* C13: on any mailbox, sorted or not, with or without unparseable dates,
\* binary_search_date returns N+1 in FirstGte mode when no position has
\* Date >= target, and 0 in LastLt mode when no position has Date < target.
C13_Sentinels ==
    spc = "done" =>
        /\ (find_first_gte /\ NoneAtOrAfter(Pop, target_date)
                => result = Len(mailbox) + 1)
        /\ (~find_first_gte /\ NoneBefore(Pop, target_date) => result = 0)

\* the FirstGte search has returned the sentinel on an unsorted mailbox that
\* has an unparseable date
C13_Witness ==
    /\ spc = "done" /\ find_first_gte
    /\ NoneAtOrAfter(Pop, target_date)
    /\ result = Len(mailbox) + 1
    /\ \E p \in 1..Len(mailbox) : Pop[p] = None
    /\ \E p \in 1..Len(mailbox), q \in 1..Len(mailbox) :
         p < q /\ Pop[q] # None /\ Pop[p] > Pop[q]

\* ----------------------------------------------------------- claim C16
\* C16: binary_search_date terminates for every mailbox size, target and
\* assignment of parseable and unparseable dates: the loop is eventually
\* left and the function returns.
C16_SearchTerminates == <>(spc = "done")

\* ----------------------------------------------------------- claim C14
\* C14: every execution of delete_messages_robust eventually leaves its batch
\* loop, whatever the pattern of connection, STAT, mark and commit failures.
C14_DeleteLeavesLoop == <>(pc \in {"final", "returned", "raised"})

\* ----------------------------------------------------------- claim C15
\* C15: every execution of backup_emails_to_zip eventually leaves its batch
\* loop and returns, whatever the pattern of connection, STAT, fetch and
\* commit failures.
C15_BackupLeavesLoop == <>(pc = "b_returned")

\* ----------------------------------------------------------- claim C17
\* a step in which connect_pop3, called at the head of a batch, fails with
\* an authentication error
AuthFailure ==
    /\ pc \in {"connect", "b_connect"}
    /\ last_failure' = "auth"
    /\ consecutive_failures' = consecutive_failures + 1

\* C17: an authentication failure of connect_pop3 in the batch loop of
\* delete_messages_robust or backup_emails_to_zip ends the loop at once: no
\* backoff wait is started and no connection for another batch is attempted.
C17_AuthFailureFatal ==
    [][AuthFailure => /\ pc' \in {"final", "b_returned"}
                      /\ wait_time' = wait_time]_vars

\* ----------------------------------------------------------- claim C18
\* C18: in delete_messages_robust no failure of a session operation leaves
\* the function as an unhandled error: every failure ends in the backoff or
\* at the failure ceiling and the function returns a count.
C18_NoUnhandledError == pc # "raised"

\* ----------------------------------------------------------- claim C20
\* a step of delete_messages_robust in which a failure is counted
\* (a connection, STAT or commit failure)
CountedFailure ==
    InDelete /\ consecutive_failures' = consecutive_failures + 1

\* C20 as stated: delete_messages_robust stops for failures only once
\* consecutive_failures exceeds max_failures; a failure that leaves the
\* count at or below max_failures is followed by a wait and a retry.
C20_FailedOnlyAboveCeiling ==
    [][(CountedFailure /\ consecutive_failures' <= MAX_FAILURES)
          => pc' = "connect"]_vars

\* C20 amended: delete_messages_robust stops for failures as soon as
\* consecutive_failures reaches max_failures: the batch loop runs only while
\* the count is below max_failures, a failure that leaves it below is
\* followed by a wait and a retry, the failure that makes it max_failures
\* ends the loop, and from then on nothing is marked or committed.
C20_FailedAtCeiling ==
    [][/\ (pc \in {"connect", "stat", "quit", "mark", "commit"}
              => consecutive_failures < MAX_FAILURES)
       /\ (CountedFailure =>
              IF consecutive_failures' >= MAX_FAILURES
              THEN pc' = "final" /\ wait_time' = wait_time
              ELSE pc' = "connect")
       /\ (InDelete /\ consecutive_failures >= MAX_FAILURES =>
              /\ pc' \in {"final", "returned"}
              /\ marks' = marks /\ mailbox' = mailbox)]_vars

\* the loop has been left at the fifth consecutive failure, after a batch
\* was committed
C20_Witness ==
    /\ pc = "final" /\ consecutive_failures = MAX_FAILURES
    /\ committed > 0 /\ Len(mailbox) > 0

\* ----------------------------------------------------------- claim C19
\* C19: in the Gmail backup_emails_to_zip with delete_after, every message id
\* passed to delete_messages_batch has its content among the entries written
\* for that batch, whatever fetches of the batch returned nothing or raised.
C19_DeletedIdsArchived ==
    pc = "g_delete" =>
        \A k \in 1..Len(batch_msg_ids) :
            \E e \in 1..Len(batch_emails) :
                batch_emails[e].msg = batch_msg_ids[k]

\* ----------------------------------------------------------- claim C21
\* the last count observed by delete_messages_robust says that the target is
\* reached or that the mailbox is empty
ObservedDone ==
    /\ num_messages # None
    /\ \/ initial_count - num_messages >= messages_to_delete
       \/ num_messages = 0

\* C21: when the count observed by delete_messages_robust gives
\* actual_deleted >= target, or an empty mailbox, the engine leaves the batch
\* loop without marking anything in that session: no session with such a
\* count is ever in the mark loop or at the commit of a batch.
C21_DoneWithoutMarking ==
    (InDelete /\ ObservedDone) =>
        /\ pc \in {"quit", "final", "returned", "raised"}
        /\ marks = {}

\* a session has found the target reached after an earlier batch was
\* committed, and is being closed
C21_Witness ==
    /\ InDelete /\ pc = "quit" /\ ObservedDone
    /\ messages_to_delete > 0 /\ committed = messages_to_delete
    /\ num_messages > 0

\* ----------------------------------------------------------- claim C22
\* C22: in every batch of delete_messages_robust the batch has
\* k = min(batch_size (at most 50), target - actual_deleted,
\* current_count - start + 1) positions, the marked positions lie in the
\* prefix start..i-1 of start..start+k-1 that the loop has passed, every
\* marked position is between start and the current count, and the number
\* of marks never exceeds the remaining target.
C22_MarksArePrefix ==
    (InDelete /\ pc \in {"mark", "commit"}) =>
        LET rem == messages_to_delete - (initial_count - num_messages)
            k == Min(batch_size, Min(rem, num_messages - start_position + 1))
        IN  /\ batch_size <= 50
            /\ batch_count = k
            /\ i \in start_position..(start_position + k)
            /\ (pc = "mark" => i < start_position + k)
            /\ marks \subseteq start_position..(i - 1)
            /\ \A p \in marks : start_position <= p /\ p <= num_messages
            /\ Cardinality(marks) <= rem
            /\ marked_count = Cardinality(marks)

\* a second batch, smaller than the batch size, has been marked in full from
\* a start position inside the mailbox
C22_Witness ==
    /\ InDelete /\ pc = "commit"
    /\ start_position > 1 /\ committed > 0
    /\ batch_count < batch_size
    /\ marks = start_position..(start_position + batch_count - 1)

\* ----------------------------------------------------------- claim C23
\* the step is a failure of delete_messages_robust after which the engine
\* tries again
RetriedFailure ==
    /\ InDelete /\ pc \in {"connect", "stat", "commit"}
    /\ consecutive_failures' = consecutive_failures + 1
    /\ pc' = "connect"

\* C23: the wait after the failure that brings the streak to c is
\* min(30 * c, 120) for a connection or STAT failure and min(60 * c, 300) for
\* a commit failure; it never exceeds its cap, and for every c the commit
\* wait is at least the connection wait.
C23_WaitSchedule ==
    [][RetriedFailure =>
        LET c == consecutive_failures'
        IN  /\ pc \in {"connect", "stat"} =>
                   /\ wait_time' = Min(30 * c, 120)
                   /\ wait_time' <= 120
            /\ pc = "commit" =>
                   /\ wait_time' = Min(60 * c, 300)
                   /\ wait_time' <= 300
            /\ Min(60 * c, 300) >= Min(30 * c, 120)]_vars

\* the fourth failure of a streak was a failed commit, waited for 240 seconds
C23_Witness ==
    /\ InDelete /\ pc = "connect"
    /\ consecutive_failures = 4 /\ last_failure = "commit"
    /\ wait_time = 240

\* ----------------------------------------------------------- claim C24
\* the step is a failed connect, a failed STAT or a failed commit of
\* delete_messages_robust
FailureStep ==
    \/ pc = "connect" /\ pc' # "stat"
    \/ pc = "stat" /\ pc' \in {"connect", "final"}
    \/ pc = "commit" /\ last_failure' = "commit"

\* the step is a successful commit of delete_messages_robust
CommitStep == pc = "commit" /\ last_failure' = "none"

\* C24: consecutive_failures is 0 at the start, is reset to 0 by a successful
\* commit and by nothing else, is incremented by exactly 1 by each failed
\* connect, failed STAT and failed commit, and is left alone by every other
\* step: it counts the failures since the last successful commit or the start.
C24_StreakCounter ==
    /\ [](InDelete => (consecutive_failures = 0 <=> last_failure = "none"))
    /\ [][InDelete =>
            consecutive_failures' =
                IF CommitStep THEN 0
                ELSE IF FailureStep THEN consecutive_failures + 1
                ELSE consecutive_failures]_vars

\* three failures since a successful commit, and a session that has connected
\* and counted successfully since then
C24_Witness ==
    /\ InDelete /\ pc = "mark"
    /\ consecutive_failures = 3 /\ committed > 0

\* ----------------------------------------------------------- claim C25
\* the step is a failed commit of a batch of the backup
BackupCommitFailure ==
    InBackup /\ pc = "b_commit" /\ last_failure' = "commit"

\* the entries written for the current batch are the last ones of the archive
BatchEntriesKept(a) ==
    /\ Len(a) >= Len(batch_emails)
    /\ SubSeq(a, Len(a) - Len(batch_emails) + 1, Len(a)) = batch_emails

\* C25: in the backup with delete_after, before a batch backed_up = deleted
\* and remaining = total - deleted, and the batch advances them by the number
\* of archived messages; a failed commit restores exactly the values before
\* the batch, leaves deleted and the mailbox unchanged, keeps the entries
\* already written, and the batch made next has the same start and count.
C25_CommitFailureRollsBack ==
    /\ []((InBackup /\ delete_after) =>
            /\ pc \in {"b_connect", "b_stat", "b_fetch", "b_write"} =>
                   /\ backed_up = deleted
                   /\ remaining = messages_to_delete - deleted
            /\ pc \in {"b_mark", "b_commit"} =>
                   /\ backed_up = deleted + Len(batch_emails)
                   /\ remaining = messages_to_delete - backed_up
            /\ (pc \in {"b_fetch", "b_write", "b_mark", "b_commit"}
                    /\ failed_batch # <<>>) =>
                   /\ CurrentStart = failed_batch[1]
                   /\ batch_count = failed_batch[2])
    /\ [][BackupCommitFailure =>
            /\ backed_up' = deleted /\ backed_up' = backed_up - Len(batch_emails)
            /\ remaining' = messages_to_delete - deleted
            /\ deleted' = deleted
            /\ mailbox' = mailbox
            /\ archive' = archive /\ BatchEntriesKept(archive')
            /\ pc' = "b_connect"]_vars

\* a batch that archived two messages failed to commit and is being fetched
\* again from the same start with the same count
C25_Witness ==
    /\ InBackup /\ delete_after /\ pc = "b_fetch"
    /\ failed_batch # <<>> /\ failed_batch[2] >= 2
    /\ Len(archive) >= 2 /\ backed_up = 0 /\ deleted = 0
    /\ i = CurrentStart

\* ----------------------------------------------------------- claim C26
\* largest mailbox of the runs in which only fetches fail
FetchMaxN == 6

\* backup_emails_to_zip is called without deletion on a range of a mailbox
\* of up to FetchMaxN messages
InitFetch ==
    /\ \E n \in 1..FetchMaxN :
         /\ dates = [m \in 1..n |-> 0]
         /\ mailbox = [p \in 1..n |-> p]
    /\ marks = {} /\ archive = <<>>
    /\ SearchIdle /\ GmailIdle
    /\ config = [DELETE_YEARS |-> <<>>, CUTOFF_DATE |-> None,
                 BATCH_SIZE |-> DEFAULT_BATCH_SIZE]
    /\ batch_size = CappedBatchSize(config)
    /\ start_position \in 1..Len(dates)
    /\ messages_to_delete \in 1..(Len(dates) - start_position + 1)
    /\ range = [start_pos |-> start_position, end_pos |-> end_pos,
                count |-> messages_to_delete]
    /\ pc = "b_connect" /\ delete_after = FALSE
    /\ consecutive_failures = 0
    /\ initial_count = None
    /\ num_messages = None
    /\ batch_count = 0 /\ i = 0 /\ marked_count = 0 /\ errors_this_batch = 0
    /\ wait_time = 0 /\ total_deleted = None
    /\ backed_up = 0 /\ deleted = 0
    /\ remaining = messages_to_delete
    /\ batch_emails = <<>> /\ batch_msg_nums = <<>>
    /\ committed = 0 /\ failed_batch = <<>> /\ last_failure = "none"
    /\ open_sessions = 0

\* the steps of a backup in which connections and STATs succeed
NextFetch == BConnectOk \/ BStatOk \/ BFetchOk \/ BFetchFail \/ BWrite

SpecFetch == InitFetch /\ [][NextFetch]_vars

\* the last position of the batch that was fetched successfully, or the
\* position before the batch when none was
LastFetched ==
    IF batch_msg_nums = <<>> THEN CurrentStart - 1
    ELSE batch_msg_nums[Len(batch_msg_nums)]

\* the step is a failed fetch of the message at position i
FetchFailure ==
    /\ InBackup /\ pc = "b_fetch"
    /\ consecutive_failures' = consecutive_failures + 1

\* C26: the backup is aborted by a fetch failure exactly when it is the fifth
\* of five fetch failures in a row: the failing position and the four before
\* it all failed, with no successful fetch between them.
C26_AbortOnFiveInARow ==
    [][FetchFailure =>
        (pc' = "b_returned" <=> i - LastFetched >= MAX_FAILURES)]_vars

\* ----------------------------------------------------------- claim C27
\* C27: the first position read by each batch of the backup is start_pos when
\* delete_after is set and start_pos + backed_up otherwise, backed_up being
\* the number of messages archived so far.
C27_FirstPositionOfBatch ==
    [][(InBackup /\ pc = "b_stat" /\ pc' = "b_fetch") =>
        /\ delete_after => i' = start_position
        /\ ~delete_after => i' = start_position + backed_up
        /\ backed_up = Len(archive) \/ delete_after]_vars

\* the second batch of a backup without deletion starts after the messages
\* archived by the first
C27_Witness ==
    /\ InBackup /\ ~delete_after /\ pc = "b_fetch"
    /\ backed_up > 0 /\ batch_emails = <<>>
    /\ i = start_position + backed_up

\* ----------------------------------------------------------- claim C28
\* the positions of the batch being fetched
BatchInterval == CurrentStart..(CurrentStart + batch_count - 1)

\* C28: in the backup without deletion, fetch failures below the ceiling
\* included, the intervals read by successive batches are pairwise disjoint:
\* a batch reads no position whose message an earlier batch archived, and no
\* message is archived twice.
C28_BatchesDisjoint ==
    (InBackup /\ ~delete_after) =>
        /\ pc = "b_fetch" => \A p \in BatchInterval : mailbox[p] \notin Archived
        /\ \A m \in Archived : Cardinality(EntriesOf(m)) = 1

\* ----------------------------------------------------------- claim C29
\* largest mailbox of the searches on which the neighbour probe is checked:
\* the midpoint of a window can have both neighbours at distance 5
ProbeMaxN == 11

\* binary_search_date is called on a mailbox of up to ProbeMaxN messages in
\* which a message has the Date 0 or none
InitProbe ==
    /\ dates \in SeqsOf({0, None}, 1, ProbeMaxN)
    /\ mailbox = [p \in 1..Len(dates) |-> p]
    /\ marks = {} /\ archive = <<>>
    /\ target_date \in 0..1
    /\ find_first_gte \in BOOLEAN
    /\ LET s == SearchStart(Len(dates), find_first_gte)
       IN  left = s.left /\ right = s.right /\ result = s.result
    /\ mid = 0 /\ probed = <<>>
    /\ spc = "loop"
    /\ MainIdle /\ EngineIdle /\ GmailIdle

SpecProbe == InitProbe /\ [][NextSearch]_vars

\* the step is the first half of an iteration whose midpoint has no date
UndatedMidpoint ==
    /\ spc = "loop" /\ left <= right
    /\ Pop[(left + right) \div 2] = None

\* C29: when the midpoint has no date, the neighbours mid+1, mid-1, mid+2,
\* mid-2, mid+5, mid-5 are asked for their date in that order, those outside
\* 1..N left out; the first that has a date replaces the midpoint for the
\* comparison and no later neighbour is asked; when none has a date the
\* comparison is skipped and left becomes mid + 10.
C29_NeighbourProbe ==
    [][UndatedMidpoint =>
        LET m == (left + right) \div 2
            N == Len(mailbox)
            inside == SelectSeq(<<m + 1, m - 1, m + 2, m - 2, m + 5, m - 5>>,
                                LAMBDA t : 1 <= t /\ t <= N)
            dated == {k \in 1..Len(inside) : Pop[inside[k]] # None}
        IN  IF dated = {}
            THEN /\ probed' = inside
                 /\ left' = m + 10 /\ right' = right /\ result' = result
                 /\ spc' = "loop"
            ELSE LET first == CHOOSE k \in dated : \A j \in dated : k <= j
                 IN  /\ probed' = SubSeq(inside, 1, first)
                     /\ mid' = inside[first]
                     /\ left' = left /\ right' = right /\ result' = result
                     /\ spc' = "compare"]_vars

\* all six neighbours were inside the mailbox and only the last one asked,
\* mid-5, had a date: it is the position compared
C29_Witness ==
    /\ spc = "compare" /\ Len(probed) = 6
    /\ mid = (left + right) \div 2 - 5
    /\ mid = probed[6]

\* a midpoint near the end of the mailbox: the neighbours past the end were
\* left out, none of the others had a date, and the window skipped ahead
C29_WitnessSkip ==
    /\ spc = "loop" /\ left = mid + 10 /\ Len(probed) \in 1..5
    /\ \A k \in 1..Len(probed) : Pop[probed[k]] = None

\* ----------------------------------------------------------- claim C30
\* the dates that can be parsed are non-decreasing in position
ParseableSorted(pop) ==
    \A p \in 1..Len(pop), q \in 1..Len(pop) :
        (p <= q /\ pop[p] # None /\ pop[q] # None) => pop[p] <= pop[q]

\* C30: on a mailbox whose parseable dates are non-decreasing, some
\* positions having no parseable date, the cutoff range [1, R-1] made from
\* R = binary_search_date(FirstGte) contains no position whose Date is
\* parseable and >= cutoff; in particular R = N+1 only if no position has a
\* parseable Date >= cutoff.
C30_RangeSparesNewer ==
    (spc = "done" /\ find_first_gte /\ ParseableSorted(Pop)) =>
        LET r == CutoffRange(Pop, Len(Pop), target_date, None, None)
        IN  /\ r.count > 0 =>
                   /\ r.start_pos = 1 /\ r.end_pos = result - 1
                   /\ \A p \in r.start_pos..r.end_pos :
                          ~(Pop[p] # None /\ Pop[p] >= target_date)
            /\ result = Len(Pop) + 1 =>
                   \A p \in 1..Len(Pop) :
                       ~(Pop[p] # None /\ Pop[p] >= target_date)

\* ----------------------------------------------------------- claim C31
\* get_deletion_range gives the same range for cfg on the mailbox whichever
\* of the oldest and newest dates the caller passes
SameWithShortcuts(cfg) ==
    LET N == Len(dates)
        searched == get_deletion_range(dates, N, cfg, None, None)
    IN  \A o \in {None, dates[1]}, n \in {None, dates[N]} :
            get_deletion_range(dates, N, cfg, o, n) = searched

\* C31: on every mailbox with parseable, non-decreasing dates and for every
\* configuration, get_deletion_range called with the known oldest and newest
\* dates (taking the short-circuits of cutoff mode and of year-range mode)
\* returns the same (start, end, count) as get_deletion_range called without
\* them, and it is the range main() resolved. The configurations are those
\* main() starts with, and on each mailbox the year ranges written backwards.
C31_ShortcutsAgreeWithSearch ==
    /\ pc = "main" =>
          /\ SameWithShortcuts(config)
          /\ config.CUTOFF_DATE = 0 =>
                 \A y1 \in Years, y2 \in Years :
                     y1 > y2 =>
                       SameWithShortcuts([config EXCEPT
                                            !.DELETE_YEARS = <<y1, y2>>])
    /\ pc \in {"exit", "connect"} =>
          range = get_deletion_range(dates, Len(dates), config, None, None)

\* a range strictly inside the mailbox was resolved with one short-circuit
\* taken (start of the range at the oldest message) and one search made
C31_Witness ==
    /\ pc # "main" /\ config.DELETE_YEARS # <<>>
    /\ config.DELETE_YEARS[1] <= Year(dates[1])
    /\ config.DELETE_YEARS[2] < Year(dates[Len(dates)])
    /\ range.start_pos = 1 /\ range.count >= 2 /\ range.end_pos < Len(dates)

\* the cutoff is after the newest message and the delete-everything
\* short-circuit applies
C31_WitnessCutoff ==
    /\ pc # "main" /\ config.DELETE_YEARS = <<>>
    /\ config.CUTOFF_DATE > dates[Len(dates)]
    /\ range.count = Len(dates) /\ Len(dates) >= 2

\* ----------------------------------------------------------- claim C32
\* the positions of the two batch loops at which a session is in use
InSession == pc \in {"stat", "quit", "mark", "commit",
                     "b_stat", "b_fetch", "b_write", "b_mark", "b_commit"}

\* the positions at which the next connection is opened or the loop is left
BetweenSessions == pc \in {"connect", "final", "returned", "raised",
                           "b_connect", "b_returned"}

\* C32: in delete_messages_robust and backup_emails_to_zip at most one
\* session is open at any time; while a batch is counted, fetched, marked or
\* committed exactly one is open; and every session the batch loop opened
\* has had its quit attempted before the next connection is opened or the
\* function returns, so no session serves more than one commit.
C32_FreshSessionPerBatch ==
    (InDelete \/ InBackup) =>
        /\ open_sessions \in {0, 1}
        /\ InSession => open_sessions = 1
        /\ BetweenSessions => open_sessions = 0

\* a second batch is being marked in a session opened after the first batch
\* was committed
C32_Witness ==
    /\ InDelete /\ pc = "mark" /\ committed > 0 /\ open_sessions = 1

\* the backup is about to connect again after a failed STAT
C32_WitnessBackup ==
    /\ InBackup /\ pc = "b_connect" /\ last_failure = "stat"
    /\ open_sessions = 0

\* ----------------------------------------------------------- claim C33
\* largest mailbox of the runs in which only marks fail: a batch can have
\* more than MAX_MARK_ERRORS failed marks and positions left after them
MarkMaxN == 12

\* delete_messages_robust is called on a whole mailbox of up to MarkMaxN
\* messages with the default batch size
InitMark ==
    /\ \E n \in 1..MarkMaxN :
         /\ dates = [m \in 1..n |-> 0]
         /\ mailbox = [p \in 1..n |-> p]
    /\ marks = {} /\ archive = <<>>
    /\ SearchIdle /\ GmailIdle
    /\ config = [DELETE_YEARS |-> <<>>, CUTOFF_DATE |-> None,
                 BATCH_SIZE |-> DEFAULT_BATCH_SIZE]
    /\ batch_size = CappedBatchSize(config)
    /\ start_position = 1
    /\ messages_to_delete = Len(dates)
    /\ range = [start_pos |-> 1, end_pos |-> Len(dates),
                count |-> Len(dates)]
    /\ pc = "connect" /\ delete_after = TRUE
    /\ EngineLocalsInit

\* the steps of a deletion in which connections, STATs and commits succeed
NextMark ==
    \/ ConnectOk \/ StatOk \/ MarkOk \/ MarkFail \/ CommitOk
    \/ QuitOk \/ FinalOk

SpecMark == InitMark /\ [][NextMark]_vars

\* the step is a failed pop.dele of delete_messages_robust
MarkFailure ==
    /\ InDelete /\ pc = "mark"
    /\ errors_this_batch' = errors_this_batch + 1

\* the positions of the batch on which pop.dele has been called
Attempted == marked_count + errors_this_batch

\* C33: in delete_messages_robust a failed markDeleted skips only its own
\* position: nothing is marked or unmarked by it, marking goes on with the
\* next position and after the last one the session is committed; the loop
\* is left before the end of the batch only when more than 10 marks failed
\* in the batch, and the commit then applies the marks already made.
C33_MarkFailureSkipsPosition ==
    /\ []((InDelete /\ pc = "commit") =>
            /\ Attempted = batch_count \/ errors_this_batch > 10
            /\ errors_this_batch > 10 =>
                   Attempted = marked_count + 11 /\ Attempted <= batch_count
            /\ marks = {p \in start_position..(start_position + Attempted - 1) :
                          p \in marks}
            /\ Cardinality(marks) = marked_count)
    /\ [][MarkFailure =>
            /\ marks' = marks /\ marked_count' = marked_count
            /\ mailbox' = mailbox
            /\ IF errors_this_batch' <= 10 /\ Attempted' < batch_count
               THEN pc' = "mark" /\ i' = i + 1
               ELSE pc' = "commit"]_vars
    /\ [][(InDelete /\ pc = "commit" /\ pc' = "connect"
              /\ last_failure' = "none")
            => mailbox' = Expunge(mailbox, marks)]_vars

\* eleven marks of a batch of twelve failed after one had succeeded: the
\* loop was left with the last position untried, and the one mark made was
\* committed
C33_Witness ==
    /\ InDelete /\ pc = "connect"
    /\ errors_this_batch = 11 /\ marked_count = 1 /\ batch_count = 12
    /\ Len(mailbox) = 11 /\ committed = 1

\* ----------------------------------------------------------- claim C34
\* the step is a failed delete_messages_batch of the Gmail backup
GmailDeleteFailure ==
    /\ pc = "g_delete"
    /\ consecutive_failures' = consecutive_failures + 1

\* C34: in the Gmail backup with delete_after a batch whose delete call
\* fails is retried: after the failure the pipeline is still at the same
\* batch, unless the consecutive-failure ceiling stops the run, and the
\* messages of a batch it has left behind are deleted.
C34_FailedDeleteRetried ==
    [][GmailDeleteFailure =>
        \/ batch_start' = batch_start /\ pc' # "g_returned"
        \/ pc' = "g_returned"
              /\ consecutive_failures' >= GMAIL_MAX_FAILURES]_vars

\* ----------------------------------------------------------- claim C35
\* C35: the Gmail delete_messages_robust always terminates; batch_start
\* advances only by a successful delete of the current batch; the loop
\* stops after 10 consecutive failures; at every loop head
\* deleted = batch_start <= total; and the count returned is the sum of the
\* sizes of the batches whose delete call succeeded, the number of messages
\* gone from the mailbox.
C35_GmailDeleteTerminates ==
    /\ <>(pc = "gd_returned")
    /\ [](/\ deleted = batch_start /\ batch_start <= Len(message_ids)
          /\ consecutive_failures <= 10
          /\ deleted = committed
          /\ Len(mailbox) = Len(message_ids) - deleted
          /\ pc = "gd_returned" =>
                /\ total_deleted = committed
                /\ batch_start = Len(message_ids)
                     \/ consecutive_failures = 10)
    /\ [][batch_start' # batch_start =>
            /\ batch_start' = Min(batch_start + batch_size, Len(message_ids))
            /\ mailbox' = SelectSeq(mailbox,
                                    LAMBDA m : m \notin Range(batch_ids))
            /\ consecutive_failures' = 0]_vars

\* the run was stopped by ten consecutive failures after a first batch had
\* been deleted, and returned the size of that batch
C35_Witness ==
    /\ pc = "gd_returned" /\ consecutive_failures = 10
    /\ total_deleted = batch_size /\ total_deleted < Len(message_ids)

\* ----------------------------------------------------------- claim C36
\* R is a LastLt boundary of pop for target: R is in 0..N, position R (if
\* any) is dated before target, the position after R (if any) at or after
LastLtBoundary(pop, target, R) ==
    /\ R \in 0..Len(pop)
    /\ (R >= 1 => pop[R] < target)
    /\ (R + 1 <= Len(pop) => pop[R + 1] >= target)

\* C36: on every mailbox with parseable, non-decreasing dates and for every
\* target T, binary_search_date(find_first_gte=False) returns
\* binary_search_date(find_first_gte=True) minus 1, and the LastLt result R
\* has Date < T at R (if R >= 1) and Date >= T at R+1 (if R+1 <= N).
C36_LastLtIsFirstGteMinusOne ==
    (spc = "done" /\ SortedParseable(Pop)) =>
        LET N == Len(mailbox)
            first_gte == IF find_first_gte THEN result
                         ELSE binary_search_date(Pop, N, target_date, TRUE)
            last_lt == IF find_first_gte
                       THEN binary_search_date(Pop, N, target_date, FALSE)
                       ELSE result
        IN  /\ last_lt = first_gte - 1
            /\ LastLtBoundary(Pop, target_date, last_lt)

\* the LastLt search has returned a boundary strictly inside a sorted mailbox
C36_Witness ==
    /\ spc = "done" /\ ~find_first_gte /\ SortedParseable(Pop)
    /\ result >= 1 /\ result < Len(mailbox)
    /\ Pop[result] < target_date /\ Pop[result + 1] >= target_date

\* ----------------------------------------------------------- claim C37
\* C37: on every mailbox, sorted or not, with or without unparseable dates,
\* the value binary_search_date returns is in 1..N+1 in FirstGte mode and in
\* 0..N in LastLt mode (the value of result is in that range throughout),
\* and every position whose date it asks for is in 1..N.
C37_ResultAndProbesInRange ==
    spc # "idle" =>
        LET N == Len(mailbox) IN
        /\ find_first_gte => result \in 1..(N + 1)
        /\ ~find_first_gte => result \in 0..N
        /\ \A k \in 1..Len(probed) : probed[k] \in 1..N
        /\ spc = "compare" => mid \in 1..N
        /\ (spc = "loop" /\ left <= right) =>
               (left + right) \div 2 \in 1..N

\* the search has returned after asking neighbours next to both ends of an
\* unsorted mailbox that has unparseable dates
C37_Witness ==
    /\ spc = "done" /\ Len(probed) >= 2
    /\ \E p \in 1..Len(mailbox) : Pop[p] = None
    /\ \E p \in 1..Len(mailbox), q \in 1..Len(mailbox) :
         p < q /\ Pop[q] # None /\ Pop[p] # None /\ Pop[p] > Pop[q]

\* ----------------------------------------------------------- claim C38
\* the backup is at the head of its batch loop, or has left the loop
BackupLoopHead == InBackup /\ pc \in {"b_connect", "b_returned"}

\* C38: at every head of the batch loop of the POP3 backup_emails_to_zip,
\* backed_up + remaining = end_pos - start_pos + 1 and
\* 0 <= deleted <= backed_up; with delete_after, deleted = backed_up there.
\* Inside a batch the sum still holds and deleted lags by at most the batch.
C38_BackupCounters ==
    /\ BackupLoopHead =>
          /\ backed_up + remaining = messages_to_delete
          /\ 0 <= deleted /\ deleted <= backed_up
          /\ delete_after => deleted = backed_up
          /\ ~delete_after => deleted = 0
    /\ InBackup =>
          /\ backed_up + remaining = messages_to_delete
          /\ 0 <= deleted /\ deleted <= backed_up

\* the loop is at its head after a committed batch that archived fewer
\* messages than it asked for, with more messages to go
C38_Witness ==
    /\ InBackup /\ pc = "b_connect" /\ delete_after
    /\ deleted >= 1 /\ deleted < batch_count /\ remaining >= 1
    /\ backed_up = deleted

\* ----------------------------------------------------------- claim C39
\* mailbox sizes and date values of the backups of dated and undated mail
BundleMaxN == 3
BundleMaxDate == 3

\* backup_emails_to_zip is called, with or without deletion, on a range of a
\* mailbox whose messages have any Date or none
InitBundle ==
    /\ dates \in SeqsOf((0..BundleMaxDate) \cup {None}, 1, BundleMaxN)
    /\ mailbox = [p \in 1..Len(dates) |-> p]
    /\ marks = {} /\ archive = <<>>
    /\ SearchIdle /\ GmailIdle
    /\ config = [DELETE_YEARS |-> <<>>, CUTOFF_DATE |-> None,
                 BATCH_SIZE |-> SmallBatch]
    /\ batch_size = SmallBatch
    /\ start_position \in 1..Len(dates)
    /\ messages_to_delete \in 1..(Len(dates) - start_position + 1)
    /\ range = [start_pos |-> start_position, end_pos |-> end_pos,
                count |-> messages_to_delete]
    /\ pc = "b_connect" /\ delete_after \in BOOLEAN
    /\ consecutive_failures = 0
    /\ initial_count = None
    /\ num_messages = None
    /\ batch_count = 0 /\ i = 0 /\ marked_count = 0 /\ errors_this_batch = 0
    /\ wait_time = 0 /\ total_deleted = None
    /\ backed_up = 0 /\ deleted = 0
    /\ remaining = messages_to_delete
    /\ batch_emails = <<>> /\ batch_msg_nums = <<>>
    /\ committed = 0 /\ failed_batch = <<>> /\ last_failure = "none"
    /\ open_sessions = 0

\* the transport fails fetches only
NextBundle ==
    \/ BConnectOk \/ BStatOk
    \/ BFetchOk \/ BFetchFail
    \/ BWrite
    \/ BMarkOk \/ BCommitOk

SpecBundle == InitBundle /\ [][NextBundle]_vars

\* the entries made so far: the archive, and the batch not yet written
EntriesMade ==
    IF pc \in {"b_fetch", "b_write"} THEN archive \o batch_emails ELSE archive

\* C39: every archived message goes to the bundle named by the year and
\* month of its own Date; a message with no parseable Date goes to the one
\* fallback bundle 1970-01 and has "unknown" in its entry name; the index in
\* the entry name is backed_up plus the 1-based rank of the message among the
\* messages fetched so far in the batch.
C39_BundleAndIndex ==
    InBackup =>
      /\ \A k \in 1..Len(EntriesMade) :
           LET e == EntriesMade[k]
               d == dates[e.msg]
           IN  /\ d # None => /\ e.zip = <<Year(d), Month(d)>>
                              /\ e.date_str # "unknown"
               /\ d = None => /\ e.zip = <<UNKNOWN_YEAR, UNKNOWN_MONTH>>
                              /\ e.date_str = "unknown"
      /\ pc \in {"b_fetch", "b_write"} =>
           \A k \in 1..Len(batch_emails) : batch_emails[k].idx = backed_up + k

\* after a deleted first batch, a batch in which the first fetch failed has
\* fetched an undated message, and a dated message of another month is
\* already archived
C39_Witness ==
    /\ InBackup /\ pc \in {"b_fetch", "b_write"} /\ delete_after
    /\ backed_up >= 1 /\ Len(batch_emails) = 1
    /\ batch_msg_nums[1] > CurrentStart
    /\ dates[batch_emails[1].msg] = None
    /\ batch_emails[1].zip = <<UNKNOWN_YEAR, UNKNOWN_MONTH>>
    /\ \E k \in 1..Len(archive) :
         /\ dates[archive[k].msg] # None
         /\ archive[k].zip # <<UNKNOWN_YEAR, UNKNOWN_MONTH>>

\* ----------------------------------------------------------- claim C40
\* C40: during delete_messages_robust the start position and the target count
\* never change, and initial_count is assigned exactly once, at the first
\* successful STAT, to the count that STAT returns; no later connect, STAT,
\* mark, commit or backoff step changes it.
C40_TargetAndInitialCountFixed ==
    /\ [][InDelete =>
            /\ start_position' = start_position
            /\ messages_to_delete' = messages_to_delete
            /\ initial_count' # initial_count =>
                   /\ initial_count = None
                   /\ pc = "stat" /\ pc' \in {"quit", "mark"}
                   /\ initial_count' = Len(mailbox)]_vars
    /\ [](InDelete =>
            /\ (initial_count = None) = (num_messages = None)
            /\ initial_count \in {None, Len(dates)})

\* a later STAT has succeeded on a mailbox that a commit has shrunk, after a
\* failure and its backoff, and initial_count still is the first count
C40_Witness ==
    /\ InDelete /\ pc = "mark"
    /\ initial_count # None /\ num_messages < initial_count
    /\ committed >= 1 /\ wait_time > 0
    /\ initial_count = Len(dates)
====
